---------------------------- MODULE Spec2Model ----------------------------
(***************************************************************************)
(* A model of the nbxsync reconciliation engine: the duplicate-safe        *)
(* executor (utils/sync/safe_sync.py), the entity sync contract            *)
(* (utils/sync/syncbase.py), the host interface and host reconcilers       *)
(* (utils/sync/hostinterfacesync.py, utils/sync/hostsync.py) and the       *)
(* pipeline orchestrator (worker/syncall.py).                              *)
(*                                                                         *)
(* A Python function that talks to the remote platform is modelled as an   *)
(* operator that yields the SET of its possible results, one per answer    *)
(* the remote platform can give; a result is a record carrying the local   *)
(* record afterwards, the remote calls issued, the exception raised (or    *)
(* NoExc) and the value returned.  An action applies one handler as a      *)
(* whole and picks one of its results.                                     *)
(***************************************************************************)
EXTENDS Naturals, Integers, Sequences, FiniteSets, TLC

\* ------------------------------------------------------------------ bounds
\* Remote identifiers are 1..MaxId; NoId stands for Python's None.
MaxId == 2
\* The longest list a remote lookup (get) answers with.
MaxMatches == 2

NoId == 0
Ids == 1..MaxId

\* --------------------------------------------------------------- sequences
RECURSIVE SeqsUpTo(_, _)
SeqsUpTo(S, n) ==
    IF n = 0 THEN {<<>>}
    ELSE LET shorter == SeqsUpTo(S, n - 1)
         IN  shorter \cup {Append(q, x) : q \in {r \in shorter : Len(r) = n - 1}, x \in S}

\* Python's `pat in text` on texts held as sequences of words.
Contains(text, pat) ==
    \E i \in 0..(Len(text) - Len(pat)) :
        \A j \in 1..Len(pat) : text[i + j] = pat[j]

\* str.lower() on one word: the words of the model that carry capitals.
LowerWord(w) ==
    CASE w = "Already" -> "already"
      [] w = "Exists"  -> "exists"
      [] w = "EXISTS"  -> "exists"
      [] OTHER         -> w

Lower(text) == [i \in 1..Len(text) |-> LowerWord(text[i])]

EmptyMap == [k \in {} |-> 0]

Count(log, op) == Cardinality({i \in 1..Len(log) : log[i].op = op})

\* ------------------------------------------------------------------ errors
\* An exception: its class, str(err), and its `data` and `message`
\* attributes; strAttrs names those of the two that are str instances.
NoExc == [kind |-> "none", str |-> <<>>, data |-> <<>>, message |-> <<>>, strAttrs |-> {}]

Exc(kind, text) == [kind |-> kind, str |-> text, data |-> <<>>, message |-> <<>>, strAttrs |-> {}]

\* The remote platform's "resource already exists" answer.
ErrDuplicate ==
    [kind |-> "APIRequestError",
     str |-> <<"Application", "error", "Host", "Already", "Exists">>,
     data |-> <<"Host", "Already", "Exists">>,
     message |-> <<"Application", "error">>,
     strAttrs |-> {"data", "message"}]

\* Any other remote error.
ErrRemote ==
    [kind |-> "APIRequestError",
     str |-> <<"Something", "else">>,
     data |-> <<"Something", "else">>,
     message |-> <<>>,
     strAttrs |-> {"data"}]

\* An error that is no remote API error (transport, value, ...), whose text
\* happens to hold the phrase.
ErrOther == Exc("Exception", <<"job", "already", "exists">>)

ApiFaults == {ErrDuplicate, ErrRemote, ErrOther}

Raised(r) == r.exc.kind # "none"

\* safe_sync.py:50-61
_is_already_exists_error(err) ==
    LET candidates == <<err.str>>
                      \o (IF "data" \in err.strAttrs THEN <<err.data>> ELSE <<>>)
                      \o (IF "message" \in err.strAttrs THEN <<err.message>> ELSE <<>>)
        \* ' '.join(candidates): the texts, one after the other
        joined[i \in 0..Len(candidates)] ==
            IF i = 0 THEN <<>> ELSE joined[i - 1] \o candidates[i]
        combined == Lower(joined[Len(candidates)])
    IN  Contains(combined, <<"already", "exists">>)

\* --------------------------------------------------------- local records
\* A LocalRecord of the generic entity kinds (host group, proxy, proxy
\* group): its remote identifier and its sync status.
NewRecord == [id |-> NoId, ok |-> "none", msg |-> <<>>]

\* LocalRecord.update_sync_info(success, message)
update_sync_info(obj, success, message) ==
    [obj EXCEPT !.ok = IF success THEN "success" ELSE "failed", !.msg = message]

\* A remote call, as the log keeps it: the connection it went over ("run":
\* the wrapped sync's, "recovery": _sync_existing's), the method, the
\* identifier it carried (NoId: none), the list it answered with and the
\* class of the error it raised ("none": it returned).
Call(conn, op, id, ans, err) ==
    [conn |-> conn, op |-> op, id |-> id, ans |-> ans, err |-> err]

\* What a handler hands back: the record afterwards, the calls issued, the
\* exception raised, the value returned, and (for the executor) the
\* exception the wrapped sync raised.
Result(obj, log, exc, ret) ==
    [obj |-> obj, log |-> log, exc |-> exc, ret |-> ret, run |-> NoExc]

NoRet == [tag |-> "none", id |-> NoId]

\* What a remote lookup can answer: up to MaxMatches entries.  The code reads
\* the length of the list and its first entry only, so the first entry
\* carries any identifier (NoId: the entry carries none) and the further
\* entries another resource's.
MatchLists ==
    {<<>>} \cup {<<first>> \o [k \in 1..n |-> MaxId] : first \in Ids \cup {NoId}, n \in 0..(MaxMatches - 1)}

\* The remote platform's answers to one call: one of `vals`, or an error.
Answers(vals) ==
    {[exc |-> NoExc, val |-> v] : v \in vals}
    \cup {[exc |-> e, val |-> <<>>] : e \in ApiFaults}

\* ------------------------------------------------ Entity Sync Contract
\* syncbase.py:120-122: api_object().get(<id_key>s=get_id()); the caller
\* reads the answer's truth value only.
find_by_id(conn, obj) ==
    {[exc |-> a.exc, val |-> a.val,
      call |-> Call(conn, "get_by_id", obj.id, a.val, a.exc.kind)]
        : a \in Answers({<<>>, <<obj.id>>})}

\* syncbase.py:113-118: api_object().get(search={name_key: name})
find_by_name(conn, obj) ==
    {[exc |-> a.exc, val |-> a.val,
      call |-> Call(conn, "get_by_name", NoId, a.val, a.exc.kind)]
        : a \in Answers(MatchLists)}

\* syncbase.py:143-148: api_object().update(**get_update_params(object_id))
update_in_zabbix(conn, obj, log, object_id) ==
    {Result(obj, Append(log, Call(conn, "update", object_id, <<>>, a.exc.kind)),
            a.exc, NoRet)
        : a \in Answers({<<>>})}

\* syncbase.py:137-141: the identifier and the success status are written
\* before the remote update is issued.
sync_to_zabbix(conn, obj, log, object_id) ==
    update_in_zabbix(conn,
                     update_sync_info([obj EXCEPT !.id = object_id], TRUE, <<>>),
                     log, object_id)

\* nbxsync.choices.syncsot.SyncSOT, the SourceOfTruthPolicy of an entity kind.
SyncSOT == {"NETBOX", "ZABBIX"}

\* syncbase.py:134-135: the base adapter has no pull.
sync_from_zabbix(conn, obj, log, data) ==
    {Result(obj, Append(log, Call(conn, "sync_from_zabbix", data, <<>>, "NotImplementedError")),
            Exc("NotImplementedError", <<>>), NoRet)}

\* syncbase.py:124-132: the policy decides between pull and push.  No sync
\* of syncbase.py, hostsync.py or hostinterfacesync.py calls it.
handle_found(sot, conn, obj, log, data) ==
    IF sot = "ZABBIX" THEN sync_from_zabbix(conn, obj, log, data)
    ELSE IF sot = "NETBOX" THEN sync_to_zabbix(conn, obj, log, data)
    ELSE {Result(obj, log, NoExc, [tag |-> "id", id |-> data])}

\* syncbase.py:64-79
create_or_get(cls, conn, obj, log) ==
    UNION {
      LET log1 == Append(log, Call(conn, "create", NoId, c.val, c.exc.kind))
      IN  IF c.exc.kind = "none"
          THEN \* result.get(result_key, [None])[0]
               IF c.val = <<>>
               THEN {Result(obj, log1, Exc("IndexError", <<"list", "index">>), NoRet)}
               ELSE {Result(obj, log1, NoExc, [tag |-> "id", id |-> c.val[1]])}
          ELSE IF c.exc.kind # "APIRequestError" \/ ~_is_already_exists_error(c.exc)
          THEN {Result(obj, log1, c.exc, NoRet)}
          ELSE UNION {
                 LET log2 == Append(log1, Call(conn, "get_by_filter", NoId, g.val, g.exc.kind))
                 IN  IF g.exc.kind # "none"
                     THEN {Result(obj, log2, g.exc, NoRet)}
                     ELSE IF Len(g.val) # 1 \/ g.val[1] = NoId
                     THEN {Result(obj, log2,
                                  Exc("RuntimeError", <<cls, "already", "exists", "not", "unique">>),
                                  NoRet)}
                     ELSE {Result(obj, log2, NoExc, [tag |-> "id", id |-> g.val[1]])}
                   : g \in Answers(MatchLists) }
        : c \in Answers({<<>>} \cup {<<i>> : i \in Ids \cup {NoId}}) }

\* What obj.save() can do in create_in_zabbix: store the row, or hit the
\* unique constraint with the conflicting row found or not found.
SaveOutcomes == {"saved", "conflict_row_found", "conflict_no_row"}

\* syncbase.py:81-107
create_in_zabbix(cls, conn, obj, log) ==
    UNION {
      IF Raised(r) THEN {r}
      ELSE IF r.ret.id = NoId
      THEN {Result(obj, r.log, Exc("RuntimeError", <<cls, "creation", "returned", "no", "ID">>), NoRet)}
      ELSE { CASE s = "saved" ->
                    Result(update_sync_info([obj EXCEPT !.id = r.ret.id], TRUE, <<>>),
                           r.log, NoExc, r.ret)
               [] s = "conflict_row_found" ->
                    \* self.obj = current: the success status goes to the row
                    \* that already holds the identifier, this row is not stored
                    Result(obj, Append(r.log, Call(conn, "reuse_row", r.ret.id, <<>>, "none")),
                           NoExc, r.ret)
               [] OTHER ->
                    Result(obj, r.log, Exc("IntegrityError", <<"unique", "constraint">>), NoRet)
             : s \in SaveOutcomes }
        : r \in create_or_get(cls, conn, obj, log) }

\* syncbase.py:40-50
Base_sync(cls, conn, obj, log) ==
    IF obj.id # NoId
    THEN UNION {
           LET log1 == Append(log, f.call)
           IN  IF f.exc.kind # "none" THEN {Result(obj, log1, f.exc, NoRet)}
               ELSE IF f.val # <<>> THEN sync_to_zabbix(conn, obj, log1, obj.id)
               ELSE create_in_zabbix(cls, conn, obj, log1)
             : f \in find_by_id(conn, obj) }
    ELSE create_in_zabbix(cls, conn, obj, log)

\* ---------------------------------------------- Duplicate-Safe Executor
\* The value the wrapped operation returns.
RawRet == [tag |-> "raw", id |-> NoId]

\* nbxsync.utils.sync.run_zabbix_operation: resolve the Target, open a
\* connection, build the adapter and invoke the operation; errors
\* propagate to the caller.
run_zabbix_operation(cls, obj) ==
    {Result(update_sync_info(obj, FALSE, <<"Zabbix", "Server", "not", "found">>), <<>>,
            Exc("DoesNotExist", <<"ZabbixServer", "matching", "query", "does", "not", "exist">>),
            NoRet)}
    \cup
    {[r EXCEPT !.ret = IF Raised(r) THEN NoRet ELSE RawRet]
        : r \in Base_sync(cls, "run", obj, <<Call("run", "connect", NoId, <<>>, "none")>>)}

\* RuntimeError(f'Error syncing {sync_class.__name__}: {err}')
ErrorSyncing(cls, err) == Exc("RuntimeError", <<"Error", "syncing", cls>> \o err.str)

\* safe_sync.py:21-47
_sync_existing(cls, obj, log, extra_args) ==
    \* ZabbixServer.objects.get(pk=...) raises DoesNotExist
    {Result(update_sync_info(obj, FALSE, <<"Zabbix", "Server", "not", "found">>), log,
            Exc("DoesNotExist", <<"ZabbixServer", "matching", "query", "does", "not", "exist">>),
            NoRet)}
    \cup
    UNION {
      LET log1 == log \o <<Call("recovery", "connect", NoId, <<>>, "none"), f.call>>
      IN  IF f.exc.kind # "none" THEN {Result(obj, log1, f.exc, NoRet)}
          ELSE IF f.val = <<>>
          THEN {Result(obj, log1,
                       Exc("RuntimeError", <<cls, "already", "exists", "could", "not", "be", "retrieved">>),
                       NoRet)}
          ELSE IF f.val[1] = NoId
          THEN {Result(obj, log1,
                       Exc("RuntimeError", <<cls, "already", "exists", "missing", "expected", "key">>),
                       NoRet)}
          ELSE {[r EXCEPT !.ret = IF Raised(r) THEN NoRet ELSE [tag |-> "found", id |-> f.val[1]]]
                  : r \in sync_to_zabbix("recovery", obj, log1, f.val[1])}
        : f \in find_by_name("recovery", obj) }

\* safe_sync.py:9: kwargs.pop('extra_args', {}); the callers of the
\* repository pass none, or the host sync's skip_templates.
ExtraArgs == {EmptyMap, [skip_templates |-> TRUE]}

\* safe_sync.py:12: the one call of the wrapped operation, kept in the log
\* with the extra arguments it was handed.
Invoked(cls, obj, extra_args) ==
    {[r EXCEPT !.log = <<[conn |-> "run", op |-> "sync", id |-> NoId, ans |-> <<>>,
                          err |-> r.exc.kind, args |-> extra_args]>> \o @]
        : r \in run_zabbix_operation(cls, obj)}

\* Variant: the phrase decides, whatever the class of the error.
safe_sync_any_kind(cls, obj, extra_args) ==
    UNION {
      IF ~Raised(r) THEN {r}
      ELSE IF _is_already_exists_error(r.exc)
      THEN {[x EXCEPT !.run = r.exc] : x \in _sync_existing(cls, r.obj, r.log, extra_args)}
      ELSE {[r EXCEPT !.exc = ErrorSyncing(cls, r.exc), !.run = r.exc]}
        : r \in Invoked(cls, obj, extra_args) }

\* Variant: a sync that returned is reconciled by name all the same.
safe_sync_reconciling(cls, obj, extra_args) ==
    UNION {
      IF ~Raised(r) THEN _sync_existing(cls, r.obj, r.log, extra_args)
      ELSE IF r.exc.kind = "APIRequestError"
      THEN IF _is_already_exists_error(r.exc)
           THEN {[x EXCEPT !.run = r.exc] : x \in _sync_existing(cls, r.obj, r.log, extra_args)}
           ELSE {[r EXCEPT !.exc = ErrorSyncing(cls, r.exc), !.run = r.exc]}
      ELSE {[r EXCEPT !.exc = ErrorSyncing(cls, r.exc), !.run = r.exc]}
        : r \in Invoked(cls, obj, extra_args) }

\* Variant: a recovery that ends with "already exists" is tried once more.
safe_sync_retrying(cls, obj, extra_args) ==
    UNION {
      IF ~Raised(r) THEN {r}
      ELSE IF r.exc.kind = "APIRequestError"
      THEN IF _is_already_exists_error(r.exc)
           THEN UNION {IF x.exc.kind = "APIRequestError" /\ _is_already_exists_error(x.exc)
                       THEN {[y EXCEPT !.run = r.exc] : y \in _sync_existing(cls, x.obj, x.log, extra_args)}
                       ELSE {[x EXCEPT !.run = r.exc]}
                       : x \in _sync_existing(cls, r.obj, r.log, extra_args)}
           ELSE {[r EXCEPT !.exc = ErrorSyncing(cls, r.exc), !.run = r.exc]}
      ELSE {[r EXCEPT !.exc = ErrorSyncing(cls, r.exc), !.run = r.exc]}
        : r \in Invoked(cls, obj, extra_args) }

\* safe_sync.py:8-18
safe_sync(cls, obj, extra_args) ==
    UNION {
      IF ~Raised(r) THEN {r}
      ELSE IF r.exc.kind = "APIRequestError"
      THEN IF _is_already_exists_error(r.exc)
           THEN {[x EXCEPT !.run = r.exc] : x \in _sync_existing(cls, r.obj, r.log, extra_args)}
           ELSE {[r EXCEPT !.exc = ErrorSyncing(cls, r.exc), !.run = r.exc]}
      ELSE {[r EXCEPT !.exc = ErrorSyncing(cls, r.exc), !.run = r.exc]}
        : r \in Invoked(cls, obj, extra_args) }

\* ------------------------------------------------ Pipeline Orchestrator
\* The most assignments, proxy groups, proxies and interfaces per assignment
\* the local store holds for the Target.
MaxAssignments == 2
MaxProxies == 1
MaxIfaces == 1
\* The primary keys of the local host-group records.
HostGroupPks == {1, 2}

\* The lists of distinct elements of S (a bundle's "hostgroups").
RECURSIVE DistinctSeqs(_)
DistinctSeqs(S) ==
    {<<>>} \cup UNION {{<<x>> \o q : q \in DistinctSeqs(S \ {x})} : x \in S}

\* syncall.py:156-164: one entry per assignment of the Target, with the
\* AttributeBundle of its object; an assignment that was synced before has
\* its position in the list as remote host ID, one that was not has none.
AssignmentData(groups, nIfaces, synced) ==
    [i \in 1..Len(groups) |->
        [hostid |-> IF i \in synced THEN i ELSE NoId,
         hostgroups |-> groups[i], hostinterfaces |-> [k \in 1..nIfaces |-> <<i, k>>]]]

\* The id the platform gives the host of assignment i when the pass creates
\* it: an id no assignment had before the pass.
CreatedHostId(cfg, i) == Len(cfg.assignments) + i

\* hostsync.py:171-236, the assignment's hostid after safe_sync(HostSync,
\* assignment) ended with `exc`: a sync that returned has updated the host
\* under its id or created it under a new one; a sync that raised has left
\* the id, or has cleared the id of a host the platform no longer had and
\* failed to create it.
HostIdAfter(hostid, created, exc) ==
    IF exc = "none"
    THEN {created} \cup (IF hostid # NoId THEN {hostid} ELSE {})
    ELSE {hostid, NoId}

\* Variant: every entry of every bundle is kept.
_collect_host_groups_all(assignments) ==
    LET flat[i \in 0..Len(assignments)] ==
            IF i = 0 THEN <<>> ELSE flat[i - 1] \o assignments[i].hostgroups
    IN  flat[Len(assignments)]

\* syncall.py:73-83
_collect_host_groups(assignments) ==
    LET \* the bundles' host groups, one after the other
        flat[i \in 0..Len(assignments)] ==
            IF i = 0 THEN <<>> ELSE flat[i - 1] \o assignments[i].hostgroups
        all == flat[Len(assignments)]
        \* keep an entry unless its key was seen before
        kept[i \in 0..Len(all)] ==
            IF i = 0 THEN <<>>
            ELSE IF \E j \in 1..Len(kept[i - 1]) : kept[i - 1][j] = all[i]
                 THEN kept[i - 1]
                 ELSE Append(kept[i - 1], all[i])
    IN  kept[Len(all)]

\* syncall.py:86-92: each interface with its assignment's hostid as it is
\* when the list is built.
_collect_host_interfaces(assignments) ==
    LET flat[i \in 0..Len(assignments)] ==
            IF i = 0 THEN <<>>
            ELSE flat[i - 1] \o
                 [k \in 1..Len(assignments[i].hostinterfaces) |->
                    [item |-> assignments[i].hostinterfaces[k], hostid |-> assignments[i].hostid]]
    IN  flat[Len(assignments)]

\* Variant: an assignment is counted once although it is synced twice.
total_objects_hosts_once(cfg, col) ==
    Len(cfg.assignments) + cfg.proxy_groups + cfg.proxies
    + Len(col.hostgroups) + Len(col.hostinterfaces)

\* syncall.py:191-197
total_objects(cfg, col) ==
    Len(cfg.assignments) * 2 + cfg.proxy_groups + cfg.proxies
    + Len(col.hostgroups) + Len(col.hostinterfaces)

Min(a, b) == IF a < b THEN a ELSE b

\* syncall.py:30-37: the tracker [total, completed, progress] after one
\* increment; progress is job.meta["progress"] (-1: never written).
increment(tracker, job) ==
    IF tracker.total <= 0 THEN tracker
    ELSE [tracker EXCEPT
            !.completed = @ + 1,
            !.progress = IF job
                         THEN Min(100, ((tracker.completed + 1) * 100) \div tracker.total)
                         ELSE @]

\* syncall.py:200-215: the stages of one pass, in the order syncall runs them.
StageSeq == <<"hosts1", "proxy_groups", "proxies", "hostgroups", "hostinterfaces", "hosts2", "refresh">>

StageRank(st) == CHOOSE i \in 1..Len(StageSeq) : StageSeq[i] = st

\* Variant: the host interfaces are synced before the host groups.
NextStage_interfaces_first(st) ==
    LET swapped == <<"hosts1", "proxy_groups", "proxies", "hostinterfaces", "hostgroups", "hosts2", "refresh">>
    IN  swapped[(CHOOSE i \in 1..Len(swapped) : swapped[i] = st) + 1]

\* The stage syncall runs after stage st.
NextStage(st) == StageSeq[StageRank(st) + 1]

\* The adapter each stage hands to safe_sync.
StageClass(st) ==
    CASE st \in {"hosts1", "hosts2"} -> "HostSync"
      [] st = "proxy_groups"         -> "ProxyGroupSync"
      [] st = "proxies"              -> "ProxySync"
      [] st = "hostgroups"           -> "HostGroupSync"
      [] st = "hostinterfaces"       -> "HostInterfaceSync"

\* The safe_sync calls of a stage, in loop order: the adapter, the item, and
\* the extra_args (skip_templates for a host, hostid for an interface).
StageItems(cfg, col, st) ==
    CASE st \in {"hosts1", "hosts2"} ->
            [i \in 1..Len(cfg.assignments) |->
                [cls |-> "HostSync", item |-> <<i>>, skip_templates |-> (st = "hosts1"), hostid |-> NoId]]
      [] st = "proxy_groups" ->
            [i \in 1..cfg.proxy_groups |->
                [cls |-> "ProxyGroupSync", item |-> <<i>>, skip_templates |-> FALSE, hostid |-> NoId]]
      [] st = "proxies" ->
            [i \in 1..cfg.proxies |->
                [cls |-> "ProxySync", item |-> <<i>>, skip_templates |-> FALSE, hostid |-> NoId]]
      [] st = "hostgroups" ->
            [i \in 1..Len(col.hostgroups) |->
                [cls |-> "HostGroupSync", item |-> <<col.hostgroups[i]>>, skip_templates |-> FALSE, hostid |-> NoId]]
      [] st = "hostinterfaces" ->
            [i \in 1..Len(col.hostinterfaces) |->
                [cls |-> "HostInterfaceSync", item |-> col.hostinterfaces[i].item,
                 skip_templates |-> FALSE, hostid |-> col.hostinterfaces[i].hostid]]
      [] OTHER -> <<>>

\* How one safe_sync call of the pipeline ends: it returns, or raises a
\* RuntimeError, or lets an error of its recovery path escape.
AttemptOutcomes == {"none", "RuntimeError", "APIRequestError"}

\* How the safe_sync call `attempt` can end on a store `cfg`: the exception
\* it raises ("none": it returns) and the hostid its assignment has then.
AnyOutcome(cfg, attempt) ==
    UNION {{[exc |-> e, hostid |-> h] :
              h \in IF attempt.cls = "HostSync"
                    THEN HostIdAfter(cfg.assignments[attempt.item[1]].hostid,
                                     CreatedHostId(cfg, attempt.item[1]), e)
                    ELSE {NoId}}
           : e \in AttemptOutcomes}

\* The same on a platform whose behaviour is fixed: the host syncs without
\* templates of the assignments in env.fails raise and every other call
\* returns; the hosts of the assignments in env.gone were deleted on the
\* platform, so a sync that finds the stored id missing clears it and creates
\* the host (under a new id when the create is answered).
EnvOutcome(env, cfg, attempt) ==
    LET a == attempt.item[1]
        hostid == cfg.assignments[a].hostid
        exc == IF attempt.cls = "HostSync" /\ attempt.skip_templates /\ a \in env.fails
               THEN "RuntimeError" ELSE "none"
        missing == hostid = a /\ a \in env.gone
    IN  {[exc |-> exc,
          hostid |-> IF attempt.cls # "HostSync" THEN NoId
                     ELSE IF exc = "none"
                     THEN (IF hostid = NoId \/ missing THEN CreatedHostId(cfg, a) ELSE hostid)
                     ELSE (IF missing THEN NoId ELSE hostid)]}

\* The platform a pass meets: any platform at all (every call may end in
\* every way), or the fixed one env describes.
AnyPlatform == [fixed |-> FALSE, fails |-> {}, gone |-> {}]
PlatformOutcome(env, cfg, attempt) ==
    IF env.fixed THEN EnvOutcome(env, cfg, attempt) ELSE AnyOutcome(cfg, attempt)

\* Variant: an item's exception leaves the loop and ends the pass.
AfterAttempt_abort(st, idx, exc) ==
    IF exc = "none" THEN [stage |-> st, idx |-> idx + 1] ELSE [stage |-> "done", idx |-> idx]

\* syncall.py:54-69, 105-117, 129-152: the loop position after one item's
\* attempt ended with `exc`: every except clause logs and the loop goes on.
AfterAttempt(st, idx, exc) == [stage |-> st, idx |-> idx + 1]

\* Variant: an exception of the template catalog refresh leaves syncall.
AfterRefresh_raising(outcome) == IF outcome = "failed" THEN "raised" ELSE "done"

\* syncall.py:214-217: where syncall stands after SyncTemplatesJob.run()
\* ended with `outcome`: the except clause logs a failure and syncall goes on
\* to its last statement.
AfterRefresh(outcome) == "done"

\* syncall.py:67-69, 115-117, 150-152: the else clause of the try.
TrackAttempt(tracker, job, exc) ==
    IF exc = "none" THEN increment(tracker, job) ELSE tracker

\* ================================================================ state
\* ------------------------------------------------------- HostInterfaceSync
\* The remote platform's interface store: remote[i] is the host that owns
\* interface i, NoId when the platform has no interface i.  The platform hands
\* out interface ids in increasing order and never reuses one.
MaxIfaceId == 3
IfaceIds == 1..MaxIfaceId

SwitchHostPhrase == <<"Cannot", "switch", "host", "for", "interface">>
ErrSwitchHost == Exc("APIRequestError", <<"Invalid", "params">> \o SwitchHostPhrase)
IfaceFaults == {ErrRemote, ErrOther}

ICall(op, interfaceid, hostid, err) ==
    [op |-> op, interfaceid |-> interfaceid, hostid |-> hostid, err |-> err]
IResult(obj, remote, next, log, exc) ==
    [obj |-> obj, remote |-> remote, next |-> next, log |-> log, exc |-> exc]
ISave(obj) == ICall("save", obj.id, NoId, NoExc)

\* hostinterfacesync.py:17-43: the host id of the payload; the other keys copy
\* the record's fields and are the same in every payload of one record.
HostInterfaceSync_get_create_params(context, assignment) ==
    IF context # NoId THEN [empty |-> FALSE, hostid |-> context]
    ELSE IF ~assignment.exists THEN [empty |-> TRUE, hostid |-> NoId]
    ELSE [empty |-> FALSE, hostid |-> assignment.hostid]

\* api.hostinterface.get(interfaceids=id): the matches, or a fault.
hostinterface_get(remote, id) ==
    {[found |-> id \in IfaceIds /\ remote[id] # NoId, err |-> NoExc]}
        \cup {[found |-> FALSE, err |-> e] : e \in IfaceFaults}

\* api.hostinterface.create(**params): a payload without a host is rejected,
\* any call may fail, otherwise the platform stores the interface under the
\* next id and answers with it; or it answers without error and without
\* "interfaceids" (and stores nothing).
hostinterface_create(remote, next, params) ==
    {[remote |-> remote, next |-> next, id |-> NoId, err |-> e] : e \in IfaceFaults}
        \cup IF params.empty \/ params.hostid = NoId
             THEN {[remote |-> remote, next |-> next, id |-> NoId, err |-> ErrRemote]}
             ELSE {[remote |-> [remote EXCEPT ![next] = params.hostid],
                    next |-> next + 1, id |-> next, err |-> NoExc],
                   [remote |-> remote, next |-> next, id |-> NoId, err |-> NoExc]}

\* int(result["interfaceids"][0]) on an answer without the identifier.
ErrNoIdentifier == Exc("KeyError", <<"interfaceids">>)

\* api.hostinterface.update(**params): the platform refuses to move an
\* interface to another host; any call may fail.
hostinterface_update(remote, params, id) ==
    {[err |-> e] : e \in IfaceFaults}
        \cup IF id \notin IfaceIds \/ remote[id] = NoId THEN {[err |-> ErrRemote]}
             ELSE IF ~params.empty /\ params.hostid # remote[id] THEN {[err |-> ErrSwitchHost]}
             ELSE {[err |-> NoExc]}

\* Variant: the answer of the create is not looked at, success is recorded
\* with whatever id it carried.
IfaceCreate_unchecked(obj, remote, next, log, params, message) ==
    {LET made == [obj EXCEPT !.id = c.id]
     IN  IResult(update_sync_info(made, TRUE, message), c.remote, c.next,
                 log \o <<ICall("hostinterface.create", c.id, params.hostid, c.err),
                          ISave(made)>>, NoExc)
     : c \in hostinterface_create(remote, next, params)}

\* hostinterfacesync.py:141-153 and 164-176: create, read the new id off the
\* answer, persist it and record success with `message`; whatever the two
\* statements raise (the log keeps it) is recorded and not raised.
IfaceCreate(obj, remote, next, log, params, message) ==
    {LET made == [obj EXCEPT !.id = c.id]
         e == IF c.err = NoExc /\ c.id = NoId THEN ErrNoIdentifier ELSE c.err
     IN  IF e = NoExc
         THEN IResult(update_sync_info(made, TRUE, message), c.remote, c.next,
                      log \o <<ICall("hostinterface.create", c.id, params.hostid, NoExc),
                               ISave(made)>>, NoExc)
         ELSE IResult(update_sync_info(obj, FALSE, e.str), remote, next,
                      log \o <<ICall("hostinterface.create", NoId, params.hostid, e)>>,
                      NoExc)
     : c \in hostinterface_create(remote, next, params)}

\* Variant: an update error is recorded and not raised.
IfaceUpdate_swallowing(obj, remote, next, log, params) ==
    UNION {LET call == ICall("hostinterface.update", obj.id, params.hostid, u.err)
               cleared == [obj EXCEPT !.id = NoId]
           IN  IF u.err = NoExc
               THEN {IResult(update_sync_info(obj, TRUE, <<>>), remote, next,
                             log \o <<call>>, NoExc)}
               ELSE IF Contains(u.err.str, SwitchHostPhrase)
               THEN IfaceCreate(cleared, remote, next, log \o <<call, ISave(cleared)>>,
                                params, <<"Recreated", "interface">>)
               ELSE {IResult(update_sync_info(obj, FALSE, u.err.str), remote, next,
                             log \o <<call>>, NoExc)}
           : u \in hostinterface_update(remote, params, obj.id)}

\* Variant: every rejected update is answered with a recreation.
IfaceUpdate_recreate_always(obj, remote, next, log, params) ==
    UNION {LET call == ICall("hostinterface.update", obj.id, params.hostid, u.err)
               cleared == [obj EXCEPT !.id = NoId]
           IN  IF u.err = NoExc
               THEN {IResult(update_sync_info(obj, TRUE, <<>>), remote, next,
                             log \o <<call>>, NoExc)}
               ELSE IfaceCreate(cleared, remote, next, log \o <<call, ISave(cleared)>>,
                                params, <<"Recreated", "interface">>)
           : u \in hostinterface_update(remote, params, obj.id)}

\* hostinterfacesync.py:155-179: update; "Cannot switch host for interface"
\* clears the id and recreates, any other error is recorded and re-raised.
IfaceUpdate(obj, remote, next, log, params) ==
    UNION {LET call == ICall("hostinterface.update", obj.id, params.hostid, u.err)
               cleared == [obj EXCEPT !.id = NoId]
           IN  IF u.err = NoExc
               THEN {IResult(update_sync_info(obj, TRUE, <<>>), remote, next,
                             log \o <<call>>, NoExc)}
               ELSE IF Contains(u.err.str, SwitchHostPhrase)
               THEN IfaceCreate(cleared, remote, next, log \o <<call, ISave(cleared)>>,
                                params, <<"Recreated", "interface">>)
               ELSE {IResult(update_sync_info(obj, FALSE, u.err.str), remote, next,
                             log \o <<call>>, u.err)}
           : u \in hostinterface_update(remote, params, obj.id)}

\* Variant: a failed verification is raised instead of answered with a create.
HostInterfaceSync_sync_raising(obj, remote, next, context, assignment) ==
    LET params == HostInterfaceSync_get_create_params(context, assignment)
    IN  IF obj.id = NoId THEN IfaceCreate(obj, remote, next, <<>>, params, <<>>)
        ELSE UNION {LET call == ICall("hostinterface.get", obj.id, NoId, g.err)
                    IN  IF g.err # NoExc
                        THEN {IResult(obj, remote, next, <<call>>, g.err)}
                        ELSE IF g.found
                        THEN IfaceUpdate(obj, remote, next, <<call>>, params)
                        ELSE IfaceCreate([obj EXCEPT !.id = NoId], remote, next,
                                         <<call, ISave([obj EXCEPT !.id = NoId])>>,
                                         params, <<>>)
                    : g \in hostinterface_get(remote, obj.id)}

\* hostinterfacesync.py:123-179, HostInterfaceSync.sync.
HostInterfaceSync_sync(obj, remote, next, context, assignment) ==
    LET params == HostInterfaceSync_get_create_params(context, assignment)
    IN  IF obj.id = NoId THEN IfaceCreate(obj, remote, next, <<>>, params, <<>>)
        ELSE UNION {LET call == ICall("hostinterface.get", obj.id, NoId, g.err)
                        cleared == [obj EXCEPT !.id = NoId]
                    IN  IF g.err = NoExc /\ g.found
                        THEN IfaceUpdate(obj, remote, next, <<call>>, params)
                        ELSE IfaceCreate(cleared, remote, next, <<call, ISave(cleared)>>,
                                         params, <<>>)
                    : g \in hostinterface_get(remote, obj.id)}

\* ---------------------------------------------------------------- HostSync
\* The host assignments of the model: two devices whose display names are
\* "Core/1" and "Core/10" (one is a prefix of the other, both hold a character
\* the platform does not take in a technical host name).
HostRecs == {1, 2}
DisplayName(r) == <<"C", "o", "r", "e", "/", "1">> \o [k \in 1..(r - 1) |-> "0"]

\* The platform's hosts, groups and templates are numbered from 1.
MaxHostId == 3
HostIds == 1..MaxHostId
MaxTemplates == 2
TemplateIds == 1..MaxTemplates

\* hostsync.py:499-500, re.sub(r"[^0-9a-zA-Z_. \-]", repl, s), over the
\* characters display names are written with.
SafeChars == {"C", "o", "r", "e", "0", "1", "_", ".", " ", "-"}
sanitize_string(text) ==
    [i \in 1..Len(text) |-> IF text[i] \in SafeChars THEN text[i] ELSE "_"]
HostNameLimit == 64
Truncate(text, n) == SubSeq(text, 1, IF Len(text) < n THEN Len(text) ELSE n)


\* A set as a list, in the order the platform returns it (here: CHOOSE's).
RECURSIVE ListOf(_)
ListOf(S) ==
    IF S = {} THEN <<>>
    ELSE LET x == CHOOSE y \in S : TRUE IN <<x>> \o ListOf(S \ {x})
Range(list) == {list[i] : i \in DOMAIN list}

\* The macro names of the plugin's SNMP settings and of the model's bundles.
SnmpCommunity == "{$SNMP_COMMUNITY}"
SnmpAuthPass == "{$SNMPV3_AUTHPASS}"
SnmpPrivPass == "{$SNMPV3_PRIVPASS}"

\* Variant: the payload names both ID fields whatever is set.
get_proxy_or_proxygroup_both_fields(bundle) ==
    [monitored_by |-> IF bundle.proxygroup # <<>> THEN 2
                      ELSE IF bundle.proxy # <<>> THEN 1 ELSE 0,
     proxyid |-> IF bundle.proxy # <<>> THEN bundle.proxy[1] ELSE NoId,
     proxy_groupid |-> IF bundle.proxygroup # <<>> THEN bundle.proxygroup[1] ELSE NoId]

\* hostsync.py:244-252.  bundle.proxy is <<>> when the assignment has no
\* proxy and <<id>> when it has one, id being the proxy's proxyid (NoId for a
\* proxy that was never synced); bundle.proxygroup likewise.
get_proxy_or_proxygroup(bundle) ==
    (IF bundle.proxygroup # <<>> THEN [proxy_groupid |-> bundle.proxygroup[1]] ELSE EmptyMap)
    @@ (IF bundle.proxy # <<>> THEN [proxyid |-> bundle.proxy[1]] ELSE EmptyMap)
    @@ [monitored_by |-> IF bundle.proxygroup # <<>> THEN 2
                         ELSE IF bundle.proxy # <<>> THEN 1 ELSE 0]

\* hostsync.py:287-331
SnmpMacrosOf(hi) ==
    (IF hi.type = "SNMP" /\ hi.snmp_version \in {1, 2}
     THEN <<[macro |-> SnmpCommunity, value |-> "community"]>> ELSE <<>>)
    \o (IF hi.type = "SNMP" /\ hi.snmp_version = 3 /\ hi.level \in {"AUTHNOPRIV", "AUTHPRIV"}
        THEN <<[macro |-> SnmpAuthPass, value |-> "authpass"]>> ELSE <<>>)
    \o (IF hi.type = "SNMP" /\ hi.snmp_version = 3 /\ hi.level = "AUTHPRIV"
        THEN <<[macro |-> SnmpPrivPass, value |-> "privpass"]>> ELSE <<>>)
RECURSIVE get_snmp_macros(_)
get_snmp_macros(hostinterfaces) ==
    IF hostinterfaces = <<>> THEN <<>>
    ELSE SnmpMacrosOf(Head(hostinterfaces)) \o get_snmp_macros(Tail(hostinterfaces))

\* hostsync.py:333-342, with the list get_defined_macros returned.
get_macros(all_macros, bundle) ==
    LET snmp_macros == get_snmp_macros(bundle.hostinterfaces)
        NotCommunity(x) == x.macro # SnmpCommunity
    IN  [macros |-> all_macros
            \o (IF \E i \in DOMAIN all_macros : all_macros[i].macro = SnmpCommunity
                THEN SelectSeq(snmp_macros, NotCommunity) ELSE snmp_macros)]

\* hostsync.py:344-362: the TLS keys of an agent interface and the IPMI keys of
\* an IPMI interface, copied from the interface record.
get_hostinterface_attributes(bundle) ==
    (IF \E i \in DOMAIN bundle.hostinterfaces : bundle.hostinterfaces[i].type = "AGENT"
     THEN [tls_connect |-> 1, tls_accept |-> 1] ELSE EmptyMap)
    @@ (IF \E i \in DOMAIN bundle.hostinterfaces : bundle.hostinterfaces[i].type = "IPMI"
        THEN [ipmi_authtype |-> 0] ELSE EmptyMap)

\* hostsync.py:364-365
get_hostinterface_types(bundle) == {bundle.hostinterfaces[i].type : i \in DOMAIN bundle.hostinterfaces}

\* Variant: a template that requires ANY is taken whenever the host has an
\* interface, whatever concrete types it requires besides.
TemplateIncluded_any_suffices(req, types) ==
    \/ req \ {"NONE", "ANY"} = {}
    \/ "ANY" \in req /\ types # {}
    \/ (req \ {"NONE", "ANY"}) \subseteq types

\* Variant: a template that lists NONE is taken whatever else it requires.
TemplateIncluded_none_suffices(req, types) ==
    IF "NONE" \in req THEN TRUE
    ELSE IF "ANY" \in req /\ types = {} THEN FALSE
    ELSE (req \ {"NONE", "ANY"}) \subseteq types

\* hostsync.py:367-386
TemplateIncluded(req, types) ==
    LET has_none == "NONE" \in req
        has_any == "ANY" \in req
        req_clean == req \ {"NONE", "ANY"}
    IN  IF has_none /\ req_clean = {} /\ ~has_any THEN TRUE
        ELSE IF has_any /\ types = {} THEN FALSE
        ELSE IF req_clean # {} /\ ~(req_clean \subseteq types) THEN FALSE
        ELSE TRUE
get_template_attributes(bundle) ==
    LET Included(t) == TemplateIncluded(t.req, get_hostinterface_types(bundle))
        chosen == SelectSeq(bundle.templates, Included)
    IN  [templates |-> [i \in DOMAIN chosen |-> chosen[i].templateid]]

\* hostsync.py:412-416, norm: a tag is a dict with the keys tag or name, and
\* value; t.get(k) of a missing key counts as empty.
TagGet(t, k) == IF k \in DOMAIN t THEN t[k] ELSE ""
TagKey(t) == IF TagGet(t, "tag") # "" THEN TagGet(t, "tag") ELSE TagGet(t, "name")
norm(t) == [tag |-> TagKey(t), value |-> TagGet(t, "value")]

\* merged[nt["tag"]] = nt on a dict, kept as the list of its values: a key it
\* has keeps its place, a new key goes to the end; a tag without key is left out.
RECURSIVE MergeTagsInto(_, _)
MergeTagsInto(merged, tags) ==
    IF tags = <<>> THEN merged
    ELSE LET nt == norm(Head(tags))
             put == IF \E i \in DOMAIN merged : merged[i].tag = nt.tag
                    THEN [i \in DOMAIN merged |-> IF merged[i].tag = nt.tag THEN nt ELSE merged[i]]
                    ELSE Append(merged, nt)
         IN  MergeTagsInto(IF nt.tag = "" THEN merged ELSE put, Tail(tags))

\* Variant: the platform's tags are merged over the local ones.
merge_zabbix_and_netbox_tags_remote_wins(zabbix_tags, netbox_tags) ==
    MergeTagsInto(MergeTagsInto(<<>>, netbox_tags), zabbix_tags)

\* Variant: the payload carries the local tags alone.
merge_zabbix_and_netbox_tags_local_only(zabbix_tags, netbox_tags) ==
    MergeTagsInto(<<>>, netbox_tags)

\* hostsync.py:411-429
merge_zabbix_and_netbox_tags(zabbix_tags, netbox_tags) ==
    MergeTagsInto(MergeTagsInto(<<>>, zabbix_tags), netbox_tags)

\* hostsync.py:431-448
NoAlertingTag == [tag |-> "${maintenance}", value |-> "1"]
get_tag_attributes(bundle) ==
    [tags |-> bundle.tags
        \cup (IF bundle.zstatus = "ENABLED_NO_ALERTING" THEN {NoAlertingTag} ELSE {})]

\* hostsync.py:450-471: the group ids of the device's assignments whose group
\* belongs to the host's Target; a group not created yet has no id.
get_groups(bundle, gids) ==
    {[groupid |-> gids[g]] : g \in {a \in bundle.groups : bundle.own[a]}}

\* hostsync.py:473-485
get_hostinventory(bundle) ==
    (IF bundle.inventory # <<>> THEN [inventory |-> bundle.inventory] ELSE EmptyMap)
    @@ [inventory_mode |-> bundle.inventory_mode]

\* A host of the platform; the fields host payloads write.
AbsentHost ==
    [exists |-> FALSE, host |-> <<>>, name |-> <<>>, groups |-> {}, status |-> 0,
     tags |-> {}, macros |-> {}, templates |-> {}]
HostFaults == {ErrRemote}

\* The state a sync works on: the record, the local groups' remote ids, the
\* platform's hosts, the next host id and group id the platform hands out,
\* and the calls and saves so far.
HCall(op, hostid, params, err) == [op |-> op, hostid |-> hostid, params |-> params, err |-> err]
HRes(w, exc, val) == [w |-> w, exc |-> exc, val |-> val]
Logged(w, op, hostid, params, err) == [w EXCEPT !.log = Append(@, HCall(op, hostid, params, err))]
HSaved(w, newobj) ==
    [w EXCEPT !.obj = newobj, !.log = Append(@, HCall("save", newobj.id, EmptyMap, NoExc))]

\* api.host.get(hostids=...): the hosts with these ids; a null id does not
\* filter, and the platform answers with every host or with none.
host_get(remote, hostid) ==
    LET Host(h) == [hostid |-> h, tags |-> remote[h].tags, macros |-> remote[h].macros]
        all == {h \in HostIds : remote[h].exists}
        AllHosts[n \in 0..MaxHostId] ==
            IF n = 0 THEN <<>>
            ELSE AllHosts[n - 1] \o (IF n \in all THEN <<Host(n)>> ELSE <<>>)
    IN  {[val |-> <<>>, err |-> e] : e \in HostFaults}
        \cup IF hostid = NoId
             THEN {[val |-> <<>>, err |-> NoExc], [val |-> AllHosts[MaxHostId], err |-> NoExc]}
             ELSE {[val |-> IF hostid \in all THEN <<Host(hostid)>> ELSE <<>>, err |-> NoExc]}

\* api.template.get(hostids=id): the templates linked to the host.
template_get(remote, hostid) ==
    {[val |-> {}, err |-> e] : e \in HostFaults}
        \cup {[val |-> IF hostid \in HostIds THEN remote[hostid].templates ELSE {},
               err |-> NoExc]}

\* What the platform refuses in a host payload: no group or a group without
\* id, two macros of one name, a technical or visible name another host has.
PayloadError(remote, self, p) ==
    IF p.groups = {} \/ \E g \in p.groups : g.groupid = NoId THEN ErrRemote
    ELSE IF \E i, j \in DOMAIN p.macros : i # j /\ p.macros[i].macro = p.macros[j].macro
    THEN ErrRemote
    ELSE IF \E h \in HostIds \ {self} :
                remote[h].exists /\ (remote[h].host = p.host \/ remote[h].name = p.name)
    THEN ErrDuplicate
    ELSE NoExc

\* The host the platform holds after it took payload `p` for host `old`.
HostWritten(old, p) ==
    LET linked == IF "templates" \in DOMAIN p THEN Range(p.templates) ELSE old.templates
        cleared == IF "templates_clear" \in DOMAIN p THEN p.templates_clear ELSE {}
    IN  [exists |-> TRUE, host |-> p.host, name |-> p.name,
         groups |-> {g.groupid : g \in p.groups}, status |-> p.status,
         tags |-> p.tags, macros |-> Range(p.macros), templates |-> linked \ cleared]

\* api.host.create(**params)
host_create(remote, next, p) ==
    {[remote |-> remote, next |-> next, id |-> NoId, err |-> e] : e \in HostFaults}
        \cup IF PayloadError(remote, NoId, p) # NoExc
             THEN {[remote |-> remote, next |-> next, id |-> NoId,
                    err |-> PayloadError(remote, NoId, p)]}
             ELSE {[remote |-> [remote EXCEPT ![next] = HostWritten(AbsentHost, p)],
                    next |-> next + 1, id |-> next, err |-> NoExc]}

\* api.host.update(**params)
host_update(remote, p) ==
    {[remote |-> remote, id |-> NoId, err |-> e] : e \in HostFaults}
        \cup IF p.hostid \notin HostIds \/ ~remote[p.hostid].exists
             THEN {[remote |-> remote, id |-> NoId, err |-> ErrRemote]}
             ELSE IF PayloadError(remote, p.hostid, p) # NoExc
             THEN {[remote |-> remote, id |-> NoId, err |-> PayloadError(remote, p.hostid, p)]}
             ELSE {[remote |-> [remote EXCEPT ![p.hostid] = HostWritten(@, p)],
                    id |-> p.hostid, err |-> NoExc]}

\* api.hostgroup.create(name=...)
hostgroup_create(gnext) ==
    {[id |-> NoId, gnext |-> gnext, err |-> e] : e \in HostFaults}
        \cup {[id |-> gnext, gnext |-> gnext + 1, err |-> NoExc]}

\* Variant: every macro of the remote host is appended, whatever its name.
get_defined_macros_unfiltered(w, cfg) ==
    LET result == cfg.bundle.macros
    IN  IF cfg.sot.hostmacro # "ZABBIX" THEN {HRes(w, NoExc, result)}
        ELSE {LET w1 == Logged(w, "host.get", w.obj.id, [select |-> "macros"], cur.err)
                  zbx_macros == IF cur.val # <<>> THEN cur.val[1].macros ELSE {}
              IN  IF cur.err # NoExc THEN HRes(w1, cur.err, <<>>)
                  ELSE HRes(w1, NoExc, result \o ListOf(zbx_macros))
              : cur \in host_get(w.remote, w.obj.id)}

\* hostsync.py:254-285
get_defined_macros(w, cfg) ==
    LET result == cfg.bundle.macros
        intended == {result[i].macro : i \in DOMAIN result}
    IN  IF cfg.sot.hostmacro # "ZABBIX" THEN {HRes(w, NoExc, result)}
        ELSE {LET w1 == Logged(w, "host.get", w.obj.id, [select |-> "macros"], cur.err)
                  zbx_macros == IF cur.val # <<>> THEN cur.val[1].macros ELSE {}
              IN  IF cur.err # NoExc THEN HRes(w1, cur.err, <<>>)
                  ELSE HRes(w1, NoExc,
                            result \o ListOf({m \in zbx_macros : m.macro \notin intended}))
              : cur \in host_get(w.remote, w.obj.id)}

\* hostsync.py:90-125
HostSync_get_create_params(w, cfg, rec) ==
    {IF m.exc # NoExc THEN m
     ELSE HRes(m.w, NoExc,
               get_hostinventory(cfg.bundle)
               @@ get_macros(m.val, cfg.bundle)
               @@ get_tag_attributes(cfg.bundle)
               @@ get_hostinterface_attributes(cfg.bundle)
               @@ get_proxy_or_proxygroup(cfg.bundle)
               @@ [host |-> Truncate(sanitize_string(DisplayName(rec)), HostNameLimit),
                   name |-> DisplayName(rec),
                   description |-> cfg.bundle.description,
                   groups |-> get_groups(cfg.bundle, m.w.gids),
                   status |-> IF cfg.bundle.zstatus = "DISABLED" THEN 1 ELSE 0])
     : m \in get_defined_macros(w, cfg)}

\* Variant: the extras are cleared whatever the template source of truth.
get_templates_clear_attributes_sot_ignored(w, cfg, templates) ==
    IF w.obj.id = NoId THEN {HRes(w, NoExc, [templates |-> templates, clear |-> EmptyMap])}
    ELSE {LET w1 == Logged(w, "template.get", w.obj.id, EmptyMap, cur.err)
              to_clear == cur.val \ Range(templates.templates)
          IN  IF cur.err # NoExc THEN HRes(w1, cur.err, <<>>)
              ELSE HRes(w1, NoExc, [templates |-> templates,
                                    clear |-> [templates_clear |-> to_clear]])
          : cur \in template_get(w.remote, w.obj.id)}

\* Variant: every template linked on the platform is listed for clearing.
get_templates_clear_attributes_all_linked(w, cfg, templates) ==
    IF w.obj.id = NoId THEN {HRes(w, NoExc, [templates |-> templates, clear |-> EmptyMap])}
    ELSE {LET w1 == Logged(w, "template.get", w.obj.id, EmptyMap, cur.err)
          IN  IF cur.err # NoExc THEN HRes(w1, cur.err, <<>>)
              ELSE IF cfg.sot.hosttemplate = "NETBOX"
              THEN HRes(w1, NoExc, [templates |-> templates,
                                    clear |-> [templates_clear |-> cur.val]])
              ELSE HRes(w1, NoExc,
                        [templates |-> [templates |-> templates.templates
                                                       \o ListOf(cur.val \ Range(templates.templates))],
                         clear |-> EmptyMap])
          : cur \in template_get(w.remote, w.obj.id)}

\* hostsync.py:388-409; the value is the templates dict it may have extended
\* and the dict it returns.
get_templates_clear_attributes(w, cfg, templates) ==
    IF w.obj.id = NoId THEN {HRes(w, NoExc, [templates |-> templates, clear |-> EmptyMap])}
    ELSE {LET w1 == Logged(w, "template.get", w.obj.id, EmptyMap, cur.err)
              intended == Range(templates.templates)
              to_clear == cur.val \ intended
          IN  IF cur.err # NoExc THEN HRes(w1, cur.err, <<>>)
              ELSE IF cfg.sot.hosttemplate = "NETBOX"
              THEN HRes(w1, NoExc, [templates |-> templates,
                                    clear |-> [templates_clear |-> to_clear]])
              ELSE HRes(w1, NoExc,
                        [templates |-> [templates |-> templates.templates \o ListOf(to_clear)],
                         clear |-> EmptyMap])
          : cur \in template_get(w.remote, w.obj.id)}

\* Variant: a failed fetch of the platform's tags ends the assembly.
MergeTags_raising(r, params) ==
    {LET w1 == Logged(r.w, "host.get", r.w.obj.id, [select |-> "tags"], cur.err)
         zbx_tags == IF cur.val # <<>> THEN cur.val[1].tags ELSE {}
     IN  IF cur.err # NoExc THEN HRes(w1, cur.err, <<>>)
         ELSE HRes(w1, NoExc,
                   [tags |-> Range(merge_zabbix_and_netbox_tags(ListOf(zbx_tags),
                                                                   ListOf(params.tags)))]
                   @@ params)
     : cur \in host_get(r.w.remote, r.w.obj.id)}

\* hostsync.py:145-163: the payload's tags merged over the platform's; a
\* failed fetch counts as no tag on the platform.
MergeTags(r, params) ==
    {LET w1 == Logged(r.w, "host.get", r.w.obj.id, [select |-> "tags"], cur.err)
         zbx_tags == IF cur.err = NoExc /\ cur.val # <<>> THEN cur.val[1].tags ELSE {}
     IN  HRes(w1, NoExc,
              [tags |-> Range(merge_zabbix_and_netbox_tags(ListOf(zbx_tags),
                                                              ListOf(params.tags)))]
              @@ params)
     : cur \in host_get(r.w.remote, r.w.obj.id)}

\* Variant: the skip_templates flag of the context is not looked at.
HostSync_get_update_params_templates_always(w, cfg, rec, skip_templates) ==
    UNION {IF t.exc # NoExc THEN {t}
           ELSE UNION {IF c.exc # NoExc THEN {c}
                       ELSE MergeTags(c, [hostid |-> c.w.obj.id]
                                         @@ t.val.clear @@ t.val.templates @@ c.val)
                       : c \in HostSync_get_create_params(t.w, cfg, rec)}
           : t \in get_templates_clear_attributes(w, cfg, get_template_attributes(cfg.bundle))}

\* hostsync.py:128-165
HostSync_get_update_params(w, cfg, rec, skip_templates) ==
    UNION {IF t.exc # NoExc THEN {t}
           ELSE UNION {IF c.exc # NoExc THEN {c}
                       ELSE MergeTags(c, [hostid |-> c.w.obj.id]
                                         @@ t.val.clear @@ t.val.templates @@ c.val)
                       : c \in HostSync_get_create_params(t.w, cfg, rec)}
           : t \in IF skip_templates
                   THEN {HRes(w, NoExc, [templates |-> EmptyMap, clear |-> EmptyMap])}
                   ELSE get_templates_clear_attributes(w, cfg,
                                                      get_template_attributes(cfg.bundle))}

\* hostsync.py:39-72: every group of `todo` that has no id is created on the
\* platform and its id saved; the first failure raises RuntimeError.
RECURSIVE _ensure_zbx_groups(_, _)
_ensure_zbx_groups(w, todo) ==
    IF todo = {} THEN {HRes(w, NoExc, <<>>)}
    ELSE LET hg == CHOOSE g \in todo : \A o \in todo : g <= o
         IN  IF w.gids[hg] # NoId THEN _ensure_zbx_groups(w, todo \ {hg})
             ELSE UNION {
                    LET w1 == Logged(w, "hostgroup.create", c.id, [group |-> hg], c.err)
                    IN  IF c.err # NoExc
                        THEN {HRes(w1, Exc("RuntimeError", <<"Failed", "to", "create", "Zabbix", "hostgroup">> \o c.err.str), <<>>)}
                        ELSE _ensure_zbx_groups(
                                 [w1 EXCEPT !.gids[hg] = c.id, !.gnext = c.gnext], todo \ {hg})
                    : c \in hostgroup_create(w.gnext)}

\* syncbase.py:52-62
HostSync_try_create(w, cfg, rec) ==
    UNION {IF p.exc # NoExc
           THEN {HRes(p.w, Exc("RuntimeError", <<"HostSync", "creation", "failed">> \o p.exc.str), NoId)}
           ELSE {LET w1 == Logged([p.w EXCEPT !.remote = c.remote, !.next = c.next],
                                  "host.create", c.id, p.val, c.err)
                 IN  IF c.err # NoExc
                     THEN HRes(w1, Exc("RuntimeError", <<"HostSync", "creation", "failed">> \o c.err.str), NoId)
                     ELSE HRes(w1, NoExc, c.id)
                 : c \in host_create(p.w.remote, p.w.next, p.val)}
           : p \in HostSync_get_create_params(w, cfg, rec)}

\* Variant: the host is created without the group bootstrap.
_create_host_without_groups(w, cfg, rec) ==
    {IF c.exc # NoExc THEN c
     ELSE IF c.val = NoId
     THEN HRes(c.w, Exc("RuntimeError", <<"HostSync", "creation", "returned", "no", "ID">>), NoId)
     ELSE LET made == HSaved(c.w, [c.w.obj EXCEPT !.id = c.val])
          IN  HRes([made EXCEPT !.obj = update_sync_info(@, TRUE, <<>>)], NoExc, c.val)
     : c \in HostSync_try_create(w, cfg, rec)}

\* hostsync.py:194-218
_create_host(w, cfg, rec) ==
    UNION {IF g.exc # NoExc THEN {g}
           ELSE {IF c.exc # NoExc THEN c
                 ELSE IF c.val = NoId
                 THEN HRes(c.w, Exc("RuntimeError", <<"HostSync", "creation", "returned", "no", "ID">>), NoId)
                 ELSE LET made == HSaved(c.w, [c.w.obj EXCEPT !.id = c.val])
                      IN  HRes([made EXCEPT !.obj = update_sync_info(@, TRUE, <<>>)],
                               NoExc, c.val)
                 : c \in HostSync_try_create(g.w, cfg, rec)}
           : g \in _ensure_zbx_groups(w, {a \in cfg.bundle.groups : cfg.bundle.own[a]})}

\* hostsync.py:224-236
HostSync_sync_to_zabbix(w, cfg, rec, skip_templates, object_id) ==
    IF object_id = NoId THEN _create_host(w, cfg, rec)
    ELSE UNION {IF p.exc # NoExc THEN {p}
                ELSE {LET params == [hostid |-> object_id] @@ p.val
                          w1 == Logged([p.w EXCEPT !.remote = u.remote],
                                       "host.update", object_id, params, u.err)
                      IN  IF u.err # NoExc THEN HRes(w1, u.err, NoId)
                          ELSE LET kept == HSaved(w1, [w1.obj EXCEPT !.id = u.id])
                               IN  HRes([kept EXCEPT !.obj = update_sync_info(@, TRUE, <<>>)],
                                        NoExc, u.id)
                      : u \in host_update(p.w.remote, [hostid |-> object_id] @@ p.val)}
                : p \in HostSync_get_update_params(w, cfg, rec, skip_templates)}

\* hostsync.py:490-491
HostSync_find_by_name == <<>>

\* safe_sync.py:21-47 on a HostSync: the lookup by name comes back empty.
HostSync_sync_existing(w) ==
    {HRes([w EXCEPT !.obj = update_sync_info(@, FALSE, <<"Zabbix", "Server", "not", "found">>)],
          Exc("DoesNotExist", <<"ZabbixServer", "matching", "query", "does", "not", "exist">>),
          NoId)}
    \cup
    (LET w1 == Logged(w, "find_by_name", NoId, EmptyMap, NoExc)
         existing == HostSync_find_by_name
     IN  IF existing = <<>>
         THEN {HRes(w1, Exc("RuntimeError",
                            <<"HostSync", "already", "exists", "could", "not", "be", "retrieved">>),
                    NoId)}
         ELSE {HRes(w1, NoExc, existing[1])})

\* Variant: a stored id the platform does not know is reported as an error.
HostSync_sync_failing(w, cfg, rec, skip_templates) ==
    IF w.obj.id = NoId THEN HostSync_sync_to_zabbix(w, cfg, rec, skip_templates, NoId)
    ELSE UNION {LET w1 == Logged(w, "host.get", w.obj.id, [select |-> "hostid"], exists.err)
                IN  IF exists.err # NoExc THEN {HRes(w1, exists.err, NoId)}
                    ELSE IF exists.val = <<>> THEN {HRes(w1, ErrRemote, NoId)}
                    ELSE HostSync_sync_to_zabbix(w1, cfg, rec, skip_templates, w.obj.id)
                : exists \in host_get(w.remote, w.obj.id)}

\* Variant: a record with a stored id looks its host up by the display name
\* (the platform's search matches every name that starts with the text).
HostSync_sync_by_name(w, cfg, rec, skip_templates) ==
    LET name == DisplayName(rec)
        found == {h \in HostIds : /\ w.remote[h].exists
                                  /\ Len(w.remote[h].name) >= Len(name)
                                  /\ SubSeq(w.remote[h].name, 1, Len(name)) = name}
        first == CHOOSE h \in found : \A o \in found : h <= o
        w1 == Logged(w, "host.get", NoId, [select |-> "hostid"], NoExc)
    IN  IF w.obj.id = NoId THEN HostSync_sync_to_zabbix(w, cfg, rec, skip_templates, NoId)
        ELSE IF found = {}
        THEN HostSync_sync_to_zabbix(HSaved(w1, [w1.obj EXCEPT !.id = NoId]),
                                     cfg, rec, skip_templates, NoId)
        ELSE HostSync_sync_to_zabbix(w1, cfg, rec, skip_templates, first)

\* hostsync.py:171-191
HostSync_sync(w, cfg, rec, skip_templates) ==
    IF w.obj.id = NoId THEN HostSync_sync_to_zabbix(w, cfg, rec, skip_templates, NoId)
    ELSE UNION {LET w1 == Logged(w, "host.get", w.obj.id, [select |-> "hostid"], exists.err)
                IN  IF exists.err # NoExc THEN {HRes(w1, exists.err, NoId)}
                    ELSE IF exists.val = <<>>
                    THEN HostSync_sync_to_zabbix(HSaved(w1, [w1.obj EXCEPT !.id = NoId]),
                                                 cfg, rec, skip_templates, NoId)
                    ELSE HostSync_sync_to_zabbix(w1, cfg, rec, skip_templates, w.obj.id)
                : exists \in host_get(w.remote, w.obj.id)}

\* safe_sync.py:8-18 around HostSync.sync
safe_sync_HostSync(w, cfg, rec, skip_templates) ==
    UNION {IF r.exc = NoExc THEN {r}
           ELSE IF r.exc.kind = "APIRequestError" /\ _is_already_exists_error(r.exc)
           THEN HostSync_sync_existing(r.w)
           ELSE {HRes(r.w, ErrorSyncing("HostSync", r.exc), NoId)}
           : r \in HostSync_sync(w, cfg, rec, skip_templates)}

VARIABLES
    sObj,   \* executor: the LocalRecord safe_sync is called on
    sPre,   \* executor: that record as it was before the last call
    sLog,   \* executor: the remote calls of the last call
    sExc,   \* executor: the exception the last call raised (NoExc: none)
    sRet,   \* executor: the value the last call returned
    sRun,   \* executor: the exception the wrapped sync raised in the last call
    sSot,   \* executor: the source-of-truth setting of the adapter (self.sot)
    sArgs,  \* executor: the extra_args the caller handed to the last call
    pCfg,       \* pipeline: the Target's local records and the current job
    pStage,     \* pipeline: the stage syncall is in ("idle", a stage, "done"; "raised": an exception left it)
    pIdx,       \* pipeline: the position of the stage's loop
    pCollected, \* pipeline: the host groups and interfaces syncall collected
    pAttempts,  \* pipeline: the safe_sync calls issued so far, in order
    pTracker,   \* pipeline: _ProgressTracker and job.meta["progress"]
    pRefresh,   \* pipeline: SyncTemplatesJob runs ("ok" / "failed") of the pass
    iObj,       \* interface: the ZabbixHostInterface record
    iPre,       \* interface: that record as it was before the last sync
    iAssign,    \* interface: the local assignment of the record's device
    iCtx,       \* interface: the hostid the last sync got in its context
    iRemote,    \* interface: the platform's interfaces, id -> owning host
    iRemPre,    \* interface: the platform's interfaces before the last sync
    iNext,      \* interface: the next interface id the platform hands out
    iLog,       \* interface: the remote calls and saves of the last sync
    iExc,       \* interface: the exception the last sync raised
    hCfg,       \* host: plugin settings (source of truth) and the attribute bundle
    hObj,       \* host: the assignment records, record -> [id, ok, msg]
    hGids,      \* host: the local host groups' remote ids
    hRemote,    \* host: the platform's hosts, id -> host
    hRemPre,    \* host: the platform's hosts before the last step
    hNext,      \* host: the next host id the platform hands out
    hGNext,     \* host: the next group id the platform hands out
    hLog,       \* host: the remote calls and saves of the last sync
    hLast,      \* host: what the last step was, and the state it started from
    hPrev,      \* host: what the step before that was
    fOp,        \* payload helpers: the helper applied ("none": not yet)
    fIn,        \* payload helpers: its arguments
    fOut,       \* payload helpers: what it returned
    mEnv,   \* modes: the platform's behaviour both runs meet
    dCfg,   \* decomposed mode: the local store (as pCfg)
    dStage, \* decomposed mode: the unit that runs next
    dIdx,   \* decomposed mode: the assignment synchost_assignment runs for next
    dAttempts, \* decomposed mode: the safe_sync calls made so far, in order
    rRuns   \* concurrent passes: each pass's position and its copy of the assignment

safeVars == <<sObj, sPre, sLog, sExc, sRet, sRun, sSot, sArgs>>
pipeVars == <<pCfg, pStage, pIdx, pCollected, pAttempts, pTracker, pRefresh>>
ifVars == <<iObj, iPre, iAssign, iCtx, iRemote, iRemPre, iNext, iLog, iExc>>
hostVars == <<hCfg, hObj, hGids, hRemote, hRemPre, hNext, hGNext, hLog, hLast, hPrev>>
pureVars == <<fOp, fIn, fOut>>
modeVars == <<mEnv, dCfg, dStage, dIdx, dAttempts>>
raceVars == <<rRuns>>
vars == <<safeVars, pipeVars, ifVars, hostVars, pureVars, modeVars, raceVars>>

SafeIdle ==
    /\ sObj = NewRecord
    /\ sPre = NewRecord
    /\ sLog = <<>>
    /\ sExc = NoExc
    /\ sRet = NoRet
    /\ sRun = NoExc
    /\ sSot = "NETBOX"
    /\ sArgs = EmptyMap

\* A new record, under either source-of-truth setting of its entity kind.
SafeStart ==
    /\ sObj = NewRecord
    /\ sPre = NewRecord
    /\ sLog = <<>>
    /\ sExc = NoExc
    /\ sRet = NoRet
    /\ sRun = NoExc
    /\ sSot \in SyncSOT
    /\ sArgs = EmptyMap

\* One safe_sync(HostGroupSync, obj, extra_args=...) call, from entry to
\* return or raise.
SafeSyncCall ==
    \E extra_args \in ExtraArgs : \E r \in safe_sync("HostGroupSync", sObj, extra_args) :
        /\ sArgs' = extra_args
        /\ sPre' = sObj
        /\ sObj' = r.obj
        /\ sLog' = r.log
        /\ sExc' = r.exc
        /\ sRet' = r.ret
        /\ sRun' = r.run
        /\ UNCHANGED sSot

\* ---------------------------------------------------------------- pipeline
\* The local stores a pass starts from: up to MaxAssignments assignments, each
\* with any list of host groups and with no interface or MaxIfaces of them;
\* no proxy group or MaxProxies of them, and the same for proxies; run inside
\* a job or without one.
PipeConfigs ==
    {[assignments |-> AssignmentData(g, n, synced), proxy_groups |-> pg, proxies |-> px, job |-> j]
        : g \in SeqsUpTo(DistinctSeqs(HostGroupPks), MaxAssignments),
          n \in {0, MaxIfaces}, pg \in {0, MaxProxies}, px \in {0, MaxProxies}, j \in BOOLEAN,
          synced \in {{}, 1..MaxAssignments}}

PipeIdle ==
    /\ pCfg = [assignments |-> <<>>, proxy_groups |-> 0, proxies |-> 0, job |-> FALSE]
    /\ pStage = "idle"
    /\ pIdx = 1
    /\ pCollected = [hostgroups |-> <<>>, hostinterfaces |-> <<>>]
    /\ pAttempts = <<>>
    /\ pTracker = [total |-> 0, completed |-> 0, progress |-> -1]
    /\ pRefresh = <<>>

PipeInit ==
    /\ pCfg \in PipeConfigs
    /\ pStage = "idle"
    /\ pIdx = 1
    /\ pCollected = [hostgroups |-> <<>>, hostinterfaces |-> <<>>]
    /\ pAttempts = <<>>
    /\ pTracker = [total |-> 0, completed |-> 0, progress |-> -1]
    /\ pRefresh = <<>>

\* syncall.py:183-198: collect the stage data and set up the tracker.
SyncallStart ==
    /\ pStage = "idle"
    /\ LET col == [hostgroups |-> _collect_host_groups(pCfg.assignments),
                   hostinterfaces |-> _collect_host_interfaces(pCfg.assignments)]
       IN  /\ pCollected' = col
           /\ pTracker' = [total |-> total_objects(pCfg, col), completed |-> 0, progress |-> -1]
    /\ pStage' = StageSeq[1]
    /\ pIdx' = 1
    /\ UNCHANGED <<pCfg, pAttempts, pRefresh>>

\* One pass of a stage's loop body: the safe_sync call for the next item,
\* which ends as the platform env lets it; a HostSync call writes the
\* assignment's hostid.
SyncItem(stages, env) ==
    /\ pStage \in stages
    /\ pIdx <= Len(StageItems(pCfg, pCollected, pStage))
    /\ LET attempt == StageItems(pCfg, pCollected, pStage)[pIdx]
       IN  \E o \in PlatformOutcome(env, pCfg, attempt) :
            LET pos == AfterAttempt(pStage, pIdx, o.exc)
            IN  /\ pAttempts' = Append(pAttempts, attempt)
                /\ pTracker' = TrackAttempt(pTracker, pCfg.job, o.exc)
                /\ pStage' = pos.stage
                /\ pIdx' = pos.idx
                /\ pCfg' = IF attempt.cls = "HostSync"
                           THEN [pCfg EXCEPT !.assignments[pIdx].hostid = o.hostid]
                           ELSE pCfg
    /\ UNCHANGED <<pCollected, pRefresh>>

\* syncall.py:121-153
_sync_hosts == SyncItem({"hosts1", "hosts2"}, AnyPlatform)

\* syncall.py:44-70 (proxy groups, proxies, and host groups through
\* _sync_host_groups, syncall.py:95-96)
_bulk_safe_sync == SyncItem({"proxy_groups", "proxies", "hostgroups"}, AnyPlatform)

\* syncall.py:99-118
_sync_host_interfaces == SyncItem({"hostinterfaces"}, AnyPlatform)

\* A stage's loop is over: syncall goes on to its next statement.
StageEnd ==
    /\ pStage \in {"hosts1", "proxy_groups", "proxies", "hostgroups", "hostinterfaces", "hosts2"}
    /\ pIdx > Len(StageItems(pCfg, pCollected, pStage))
    /\ pStage' = NextStage(pStage)
    /\ pIdx' = 1
    /\ UNCHANGED <<pCfg, pCollected, pAttempts, pTracker, pRefresh>>

\* syncall.py:214-221: the template catalog refresh, whose failure is
\* logged, and the final progress report.
SyncallFinish ==
    /\ pStage = "refresh"
    /\ \E r \in {"ok", "failed"} :
          /\ pRefresh' = Append(pRefresh, r)
          /\ pStage' = AfterRefresh(r)
          /\ pTracker' = [pTracker EXCEPT
                !.progress = IF pCfg.job /\ AfterRefresh(r) = "done" THEN 100 ELSE @]
    /\ UNCHANGED <<pCfg, pIdx, pCollected, pAttempts>>

\* --------------------------------------------------------- interface sync
IfIdle ==
    /\ iObj = NewRecord
    /\ iPre = NewRecord
    /\ iAssign = [exists |-> TRUE, hostid |-> NoId]
    /\ iCtx = NoId
    /\ iRemote = [i \in IfaceIds |-> NoId]
    /\ iRemPre = [i \in IfaceIds |-> NoId]
    /\ iNext = 1
    /\ iLog = <<>>
    /\ iExc = NoExc

\* A new interface record; its device has an assignment or none, and the
\* assignment has the id of a host of the platform or none yet.
IfInit ==
    /\ iObj = NewRecord
    /\ iPre = NewRecord
    /\ iAssign \in {[exists |-> x, hostid |-> h] : x \in BOOLEAN, h \in Ids \cup {NoId}}
    /\ iAssign.exists \/ iAssign.hostid = NoId
    /\ iCtx = NoId
    /\ iRemote = [i \in IfaceIds |-> NoId]
    /\ iRemPre = [i \in IfaceIds |-> NoId]
    /\ iNext = 1
    /\ iLog = <<>>
    /\ iExc = NoExc

\* One HostInterfaceSync(api, netbox_obj=obj, hostid=context).sync() call, from
\* entry to return or raise; the caller passes the assignment's host id or no
\* host id.
HostInterfaceSyncCall ==
    /\ iNext <= MaxIfaceId
    /\ \E context \in {NoId, iAssign.hostid} :
       \E r \in HostInterfaceSync_sync(iObj, iRemote, iNext, context, iAssign) :
        /\ iPre' = iObj
        /\ iRemPre' = iRemote
        /\ iCtx' = context
        /\ iObj' = r.obj
        /\ iRemote' = r.remote
        /\ iNext' = r.next
        /\ iLog' = r.log
        /\ iExc' = r.exc
        /\ UNCHANGED iAssign

\* The platform's operator deletes an interface.
RemoteInterfaceDeleted ==
    \E i \in IfaceIds :
        /\ iRemote[i] # NoId
        /\ iRemote' = [iRemote EXCEPT ![i] = NoId]
        /\ UNCHANGED <<iObj, iPre, iAssign, iCtx, iRemPre, iNext, iLog, iExc>>

\* hostsync.py:194-218: the device's host is created (again) on the platform
\* and the assignment gets the new host id.
AssignmentHostChanged ==
    \E h \in Ids :
        /\ iAssign.exists
        /\ h # iAssign.hostid
        /\ iAssign' = [iAssign EXCEPT !.hostid = h]
        /\ UNCHANGED <<iObj, iPre, iCtx, iRemote, iRemPre, iNext, iLog, iExc>>

\* -------------------------------------------------------------- host sync
\* The attribute bundles of the model: a device with one group and nothing
\* else, and a device with an agent interface, two groups (one of another
\* Target), two templates (one for SNMP interfaces), a tag, a macro, a proxy
\* and the no-alerting status.
BundlePlain ==
    [templates |-> <<>>, hostinterfaces |-> <<>>, tags |-> {}, macros |-> <<>>,
     zstatus |-> "ENABLED", description |-> <<>>, proxy |-> <<>>, proxygroup |-> <<>>,
     inventory |-> <<>>, inventory_mode |-> 0,
     groups |-> {1}, own |-> [g \in HostGroupPks |-> TRUE]]
BundleRich ==
    [templates |-> <<[templateid |-> 1, req |-> {"NONE"}],
                     [templateid |-> MaxTemplates, req |-> {"SNMP"}]>>,
     hostinterfaces |-> <<[type |-> "AGENT", snmp_version |-> 0, level |-> "NONE"]>>,
     tags |-> {[tag |-> "site", value |-> "nb"]},
     macros |-> <<[macro |-> "{$LOCAL}", value |-> "nb"]>>,
     zstatus |-> "ENABLED_NO_ALERTING", description |-> <<"rack">>,
     proxy |-> <<1>>, proxygroup |-> <<>>,
     inventory |-> <<"serial">>, inventory_mode |-> 1,
     groups |-> HostGroupPks, own |-> [g \in HostGroupPks |-> g = 1]]
HostConfigs ==
    {[sot |-> [hosttemplate |-> t, hostmacro |-> m], bundle |-> b]
        : t \in {"NETBOX", "ZABBIX"}, m \in {"NETBOX", "ZABBIX"}, b \in {BundlePlain, BundleRich}}

NoStep == [kind |-> "none", rec |-> 0, skip_templates |-> FALSE, exc |-> NoExc,
           pre |-> NewRecord, updates |-> <<>>, clean |-> TRUE, looked |-> TRUE,
           existed |-> FALSE, gids |-> <<>>]

HostIdle ==
    /\ hCfg = [sot |-> [hosttemplate |-> "NETBOX", hostmacro |-> "NETBOX"], bundle |-> BundlePlain]
    /\ hObj = [r \in HostRecs |-> NewRecord]
    /\ hGids = [g \in HostGroupPks |-> NoId]
    /\ hRemote = [h \in HostIds |-> AbsentHost]
    /\ hRemPre = [h \in HostIds |-> AbsentHost]
    /\ hNext = 1
    /\ hGNext = 1
    /\ hLog = <<>>
    /\ hLast = NoStep
    /\ hPrev = NoStep

\* Two assignments and their groups never synced, an empty platform.
HostInit ==
    /\ hCfg \in HostConfigs
    /\ hObj = [r \in HostRecs |-> NewRecord]
    /\ hGids = [g \in HostGroupPks |-> NoId]
    /\ hRemote = [h \in HostIds |-> AbsentHost]
    /\ hRemPre = [h \in HostIds |-> AbsentHost]
    /\ hNext = 1
    /\ hGNext = 1
    /\ hLog = <<>>
    /\ hLast = NoStep
    /\ hPrev = NoStep

\* The host.update calls of a log: the id and the name they carry.
UpdatesOf(log) ==
    LET IsUpdate(c) == c.op = "host.update"
        calls == SelectSeq(log, IsUpdate)
    IN  [i \in DOMAIN calls |-> [hostid |-> calls[i].params.hostid, name |-> calls[i].params.name]]
StepKind(r) ==
    IF r.exc # NoExc THEN "failed"
    ELSE IF \E i \in DOMAIN r.w.log : r.w.log[i].op = "host.create" THEN "create"
    ELSE "update"

\* The host sync as its caller runs it: through safe_sync, or directly.
RunHostSync(safe, w, cfg, rec, skip_templates) ==
    IF safe THEN safe_sync_HostSync(w, cfg, rec, skip_templates)
    ELSE HostSync_sync(w, cfg, rec, skip_templates)

\* One call of the host sync on a record of recs, from entry to return or
\* raise.
HostCall(recs, safe) ==
    \E rec \in recs, skip_templates \in BOOLEAN :
       \E r \in RunHostSync(safe, [obj |-> hObj[rec], gids |-> hGids, remote |-> hRemote,
                                    next |-> hNext, gnext |-> hGNext, log |-> <<>>],
                             hCfg, rec, skip_templates) :
        /\ r.w.next <= MaxHostId + 1
        /\ hObj' = [hObj EXCEPT ![rec] = r.w.obj]
        /\ hGids' = r.w.gids
        /\ hRemote' = r.w.remote
        /\ hRemPre' = hRemote
        /\ hNext' = r.w.next
        /\ hGNext' = r.w.gnext
        /\ hLog' = r.w.log
        /\ hLast' = [kind |-> StepKind(r), rec |-> rec, skip_templates |-> skip_templates,
                     exc |-> r.exc, pre |-> hObj[rec], updates |-> UpdatesOf(r.w.log),
                     clean |-> \A k \in DOMAIN r.w.log : r.w.log[k].err = NoExc,
                     looked |-> \A k \in DOMAIN r.w.log :
                                   r.w.log[k].op \in {"host.get", "template.get"}
                                       => r.w.log[k].err = NoExc,
                     existed |-> hObj[rec].id # NoId /\ hRemote[hObj[rec].id].exists,
                     gids |-> hGids]
        /\ hPrev' = [hLast EXCEPT !.exc = NoExc, !.pre = [NewRecord EXCEPT !.id = hLast.pre.id],
                                  !.gids = <<>>]
        /\ UNCHANGED hCfg

\* One HostSync(api, netbox_obj=obj, all_objects=bundle,
\* skip_templates=...).sync() call.
HostSyncCall(recs) == HostCall(recs, FALSE)

\* One safe_sync(HostSync, obj, extra_args={all_objects, skip_templates}) call.
SafeHostSyncCall(recs) == HostCall(recs, TRUE)

\* Another caller creates the host of record 1 on the platform: the host is
\* there under the record's names, the record knows nothing of it.
RemoteHostCreated ==
    /\ hNext <= MaxHostId
    /\ \A h \in HostIds : ~(hRemote[h].exists /\ hRemote[h].name = DisplayName(1))
    /\ hRemote' = [hRemote EXCEPT ![hNext] =
                      [AbsentHost EXCEPT !.exists = TRUE, !.name = DisplayName(1),
                                         !.host = Truncate(sanitize_string(DisplayName(1)),
                                                           HostNameLimit)]]
    /\ hNext' = hNext + 1
    /\ hRemPre' = hRemote'
    /\ hLast' = [NoStep EXCEPT !.kind = "remote"]
    /\ hPrev' = NoStep
    /\ hLog' = <<>>
    /\ UNCHANGED <<hCfg, hObj, hGids, hGNext>>

\* A step of the platform's operators on host `h`; the records are untouched.
RemoteStep(h, host) ==
    /\ hRemote[h].exists
    /\ hRemote' = [hRemote EXCEPT ![h] = host]
    /\ hRemPre' = hRemote'
    /\ hLast' = [NoStep EXCEPT !.kind = "remote"]
    /\ hPrev' = NoStep
    /\ hLog' = <<>>
    /\ UNCHANGED <<hCfg, hObj, hGids, hNext, hGNext>>

\* A further host group of the Target, not synced yet or synced, is assigned
\* to the object in the local store.
GroupAssigned ==
    \E g \in HostGroupPks \ hCfg.bundle.groups :
        /\ hCfg' = [hCfg EXCEPT !.bundle.groups = @ \cup {g}]
        /\ hLast' = [NoStep EXCEPT !.kind = "local"]
        /\ hPrev' = NoStep
        /\ hLog' = <<>>
        /\ hRemPre' = hRemote
        /\ UNCHANGED <<hObj, hGids, hRemote, hNext, hGNext>>

\* hostsync.py:431-435: the status of the device is read at every sync; the
\* device's status is changed in the local store, to or from the one that maps
\* to enabled-without-alerting.
StatusChanged ==
    /\ hCfg' = [hCfg EXCEPT !.bundle.zstatus =
                    IF @ = "ENABLED_NO_ALERTING" THEN "ENABLED" ELSE "ENABLED_NO_ALERTING"]
    /\ hLast' = [NoStep EXCEPT !.kind = "local"]
    /\ hPrev' = NoStep
    /\ hLog' = <<>>
    /\ hRemPre' = hRemote
    /\ UNCHANGED <<hObj, hGids, hRemote, hNext, hGNext>>

\* The host is deleted on the platform.
RemoteHostDeleted == \E h \in HostIds : RemoteStep(h, AbsentHost)

\* A template is linked to the host on the platform.
RemoteTemplateLinked ==
    \E h \in HostIds, t \in TemplateIds :
        /\ t \notin hRemote[h].templates
        /\ RemoteStep(h, [hRemote[h] EXCEPT !.templates = @ \cup {t}])

\* A tag and a macro the local store does not have are set on the host.
RemoteHostEdited ==
    \E h \in HostIds :
        /\ [tag |-> "zbx", value |-> "zb"] \notin hRemote[h].tags
        /\ RemoteStep(h, [hRemote[h] EXCEPT !.tags = @ \cup {[tag |-> "zbx", value |-> "zb"]},
                                            !.macros = @ \cup {[macro |-> "{$REMOTE}", value |-> "zb"]}])


\* ------------------------------------------------------------ the two modes
ModeIdle ==
    /\ mEnv = [fixed |-> TRUE, fails |-> {}, gone |-> {}]
    /\ dCfg = [assignments |-> <<>>, proxy_groups |-> 0, proxies |-> 0, job |-> FALSE]
    /\ dStage = "idle"
    /\ dIdx = 1
    /\ dAttempts = <<>>

\* Both modes start from one local store and meet one platform: some host
\* syncs without templates raise, some stored hosts were deleted there.
ModeInit ==
    /\ pCfg \in {c \in PipeConfigs : ~c.job}
    /\ pStage = "idle"
    /\ pIdx = 1
    /\ pCollected = [hostgroups |-> <<>>, hostinterfaces |-> <<>>]
    /\ pAttempts = <<>>
    /\ pTracker = [total |-> 0, completed |-> 0, progress |-> -1]
    /\ pRefresh = <<>>
    /\ mEnv \in {[fixed |-> TRUE, fails |-> f, gone |-> g] :
                    f \in SUBSET (1..Len(pCfg.assignments)),
                    g \in SUBSET {a \in 1..Len(pCfg.assignments) :
                                    pCfg.assignments[a].hostid # NoId}}
    /\ dCfg = pCfg
    /\ dStage = "idle"
    /\ dIdx = 1
    /\ dAttempts = <<>>

EnvOut(cfg, attempt) == EnvOutcome(mEnv, cfg, attempt)

\* The pass of syncall on that platform.
SyncallOnEnv ==
    \/ SyncallStart
    \/ SyncItem({"hosts1", "proxy_groups", "proxies", "hostgroups", "hostinterfaces", "hosts2"},
                mEnv)
    \/ StageEnd
    \/ SyncallFinish

\* The units of the decomposed mode, in the order of their dependency edges:
\* the global units, then one synchost_assignment per assignment.
UnitSeq == <<"sync_proxy_groups", "sync_proxies", "sync_hostgroups_to_zabbix",
             "synchost_assignment", "done">>

\* The decomposed run of the same start, taken when the pass has ended.
DecomposedStart ==
    /\ pStage = "done"
    /\ dStage = "idle"
    /\ dStage' = UnitSeq[1]
    /\ UNCHANGED <<mEnv, dCfg, dIdx, dAttempts>>

GlobalAttempt(cls, pk) == [cls |-> cls, item |-> <<pk>>, skip_templates |-> FALSE, hostid |-> NoId]

\* One global unit: every record of its kind the Target has, each in a try.
GlobalUnit(unit, cls, pks) ==
    /\ dStage = unit
    /\ dAttempts' = dAttempts \o [i \in 1..Len(pks) |-> GlobalAttempt(cls, pks[i])]
    /\ dStage' = UnitSeq[(CHOOSE i \in DOMAIN UnitSeq : UnitSeq[i] = unit) + 1]
    /\ UNCHANGED <<mEnv, dCfg, dIdx>>

\* global_sync.py:221-239
sync_proxy_groups ==
    GlobalUnit("sync_proxy_groups", "ProxyGroupSync", [i \in 1..dCfg.proxy_groups |-> i])

\* global_sync.py:242-260
sync_proxies ==
    GlobalUnit("sync_proxies", "ProxySync", [i \in 1..dCfg.proxies |-> i])

\* global_sync.py:200-218: every host group of the Target, assigned or not.
sync_hostgroups_to_zabbix ==
    GlobalUnit("sync_hostgroups_to_zabbix", "HostGroupSync", ListOf(HostGroupPks))

\* global_sync.py:267-332: phase 1 outside any try, the refreshed hostid as
\* context of every interface (none is synced without one), then phase 2.
synchost_assignment ==
    /\ dStage = "synchost_assignment"
    /\ dIdx <= Len(dCfg.assignments)
    /\ LET HostAttempt(skip) == [cls |-> "HostSync", item |-> <<dIdx>>,
                                 skip_templates |-> skip, hostid |-> NoId]
           With(h) == [dCfg EXCEPT !.assignments[dIdx].hostid = h]
           Interfaces(h) ==
               IF h = NoId THEN <<>>
               ELSE [k \in 1..Len(dCfg.assignments[dIdx].hostinterfaces) |->
                        [cls |-> "HostInterfaceSync",
                         item |-> dCfg.assignments[dIdx].hostinterfaces[k],
                         skip_templates |-> FALSE, hostid |-> h]]
       IN  \E o1 \in EnvOut(dCfg, HostAttempt(TRUE)) :
             IF o1.exc # "none"
             THEN /\ dAttempts' = Append(dAttempts, HostAttempt(TRUE))
                  /\ dCfg' = With(o1.hostid)
             ELSE \E o2 \in EnvOut(With(o1.hostid), HostAttempt(FALSE)) :
                  /\ dAttempts' = dAttempts \o <<HostAttempt(TRUE)>>
                                     \o Interfaces(o1.hostid) \o <<HostAttempt(FALSE)>>
                  /\ dCfg' = With(o2.hostid)
    /\ dIdx' = dIdx + 1
    /\ UNCHANGED <<mEnv, dStage>>

\* Every assignment's unit has run.
DecomposedEnd ==
    /\ dStage = "synchost_assignment"
    /\ dIdx > Len(dCfg.assignments)
    /\ dStage' = "done"
    /\ UNCHANGED <<mEnv, dCfg, dIdx, dAttempts>>

\* ------------------------------------- the interface stage, item by item
\* safe_sync(HostInterfaceSync, hostinterface, extra_args={"hostid": hostid}):
\* what sync() returns is returned; what it raises (an update error that is
\* neither a host switch nor a duplicate) is raised as a RuntimeError.
safe_sync_HostInterfaceSync(obj, remote, next, context, assignment) ==
    {IF r.exc = NoExc THEN r ELSE [r EXCEPT !.exc = ErrorSyncing("HostInterfaceSync", r.exc)]
        : r \in HostInterfaceSync_sync(obj, remote, next, context, assignment)}

\* A pass of syncall at the start of its interface stage: the Target has one
\* assignment with an interface and no proxy; the interface's record iObj is
\* new, or was synced before as interface 1 of some host; the host stage
\* before counted the assignment or not.
CountInit ==
    /\ pCfg \in {c \in PipeConfigs : /\ Len(c.assignments) = 1
                                    /\ c.assignments[1].hostinterfaces # <<>>
                                    /\ c.proxy_groups = 0 /\ c.proxies = 0}
    /\ pStage = "hostinterfaces"
    /\ pIdx = 1
    /\ pCollected = [hostgroups |-> _collect_host_groups(pCfg.assignments),
                     hostinterfaces |-> _collect_host_interfaces(pCfg.assignments)]
    /\ pAttempts = <<>>
    /\ \E c \in 0..1 :
          pTracker = [total |-> total_objects(pCfg, pCollected), completed |-> c,
                      progress |-> IF pCfg.job /\ c > 0
                                   THEN (c * 100) \div total_objects(pCfg, pCollected) ELSE -1]
    /\ pRefresh = <<>>
    /\ iAssign = [exists |-> TRUE, hostid |-> pCfg.assignments[1].hostid]
    /\ \/ /\ iObj = NewRecord
          /\ iRemote = [i \in IfaceIds |-> NoId]
          /\ iNext = 1
       \/ \E h \in Ids :
             /\ iObj = [id |-> 1, ok |-> "success", msg |-> <<>>]
             /\ iRemote = [i \in IfaceIds |-> IF i = 1 THEN h ELSE NoId]
             /\ iNext = 2
    /\ iPre = iObj
    /\ iRemPre = iRemote
    /\ iCtx = NoId
    /\ iLog = <<>>
    /\ iExc = NoExc

\* syncall.py:104-117: the loop body of _sync_host_interfaces for the first
\* collected interface; the attempt is kept with the status the record has
\* when the else clause runs and with whether the tracker counted it.
SyncInterfaceItem ==
    /\ pStage = "hostinterfaces"
    /\ pIdx = 1
    /\ iNext <= MaxIfaceId
    /\ LET it == pCollected.hostinterfaces[1]
       IN  \E r \in safe_sync_HostInterfaceSync(iObj, iRemote, iNext, it.hostid, iAssign) :
            LET tracked == TrackAttempt(pTracker, pCfg.job, r.exc.kind)
            IN  /\ iPre' = iObj
                /\ iRemPre' = iRemote
                /\ iCtx' = it.hostid
                /\ iObj' = r.obj
                /\ iRemote' = r.remote
                /\ iNext' = r.next
                /\ iLog' = r.log
                /\ iExc' = r.exc
                /\ pTracker' = tracked
                /\ pAttempts' = Append(pAttempts,
                        [cls |-> "HostInterfaceSync", item |-> it.item, skip_templates |-> FALSE,
                         hostid |-> it.hostid, exc |-> r.exc.kind, ok |-> r.obj.ok,
                         counted |-> tracked.completed > pTracker.completed])
                /\ pIdx' = AfterAttempt(pStage, pIdx, r.exc.kind).idx
    /\ UNCHANGED <<iAssign, pCfg, pStage, pCollected, pRefresh>>

\* ------------------------------------------------- one per-assignment unit
\* Variant: a failure of phase 1 is logged and the unit goes on, as a stage of
\* syncall does.
AfterPhase1_isolated(exc) == "interfaces"

\* global_sync.py:288-297: phase 1 runs outside any try, so its exception
\* leaves synchost_assignment; when it returns the unit goes on to the
\* interfaces.
AfterPhase1(exc) == IF exc = "none" THEN "interfaces" ELSE "raised"

\* synchost_assignment(assignment_id) for one assignment of a Target, on any
\* platform: dIdx is the assignment, dStage the statement the unit is at.
UnitInit ==
    /\ dCfg \in {c \in PipeConfigs : c.assignments # <<>> /\ ~c.job}
    /\ dIdx \in 1..Len(dCfg.assignments)
    /\ dStage = "phase1"
    /\ dAttempts = <<>>
    /\ mEnv = [fixed |-> TRUE, fails |-> {}, gone |-> {}]

\* The safe_sync calls of the unit: the host sync of its assignment, and the
\* sync of one of the bundle's interfaces with `hostid` as context.
UnitHostAttempt(skip) ==
    [cls |-> "HostSync", item |-> <<dIdx>>, skip_templates |-> skip, hostid |-> NoId]
UnitInterfaceAttempt(k, hostid) ==
    [cls |-> "HostInterfaceSync", item |-> dCfg.assignments[dIdx].hostinterfaces[k],
     skip_templates |-> FALSE, hostid |-> hostid]
\* The position of the interface loop: one past the interfaces tried so far.
UnitInterfacePos ==
    Cardinality({i \in DOMAIN dAttempts : dAttempts[i].cls = "HostInterfaceSync"}) + 1

\* global_sync.py:288-297: safe_sync(HostSync, assignment, skip_templates=True)
\* and assignment.refresh_from_db().
UnitPhase1 ==
    /\ dStage = "phase1"
    /\ \E o \in AnyOutcome(dCfg, UnitHostAttempt(TRUE)) :
          /\ dAttempts' = Append(dAttempts, UnitHostAttempt(TRUE) @@ [exc |-> o.exc, after |-> o.hostid])
          /\ dCfg' = [dCfg EXCEPT !.assignments[dIdx].hostid = o.hostid]
          /\ dStage' = AfterPhase1(o.exc)
    /\ UNCHANGED <<mEnv, dIdx>>

\* global_sync.py:300-318: one pass of the interface loop, entered only with a
\* hostid; the interface's exception is logged and the loop goes on.
UnitInterface ==
    /\ dStage = "interfaces"
    /\ dCfg.assignments[dIdx].hostid # NoId
    /\ UnitInterfacePos <= Len(dCfg.assignments[dIdx].hostinterfaces)
    /\ LET attempt == UnitInterfaceAttempt(UnitInterfacePos, dCfg.assignments[dIdx].hostid)
       IN  \E o \in AnyOutcome(dCfg, attempt) :
             dAttempts' = Append(dAttempts, attempt @@ [exc |-> o.exc, after |-> NoId])
    /\ UNCHANGED <<mEnv, dCfg, dIdx, dStage>>

\* The interface loop is over, or was not entered for want of a hostid.
UnitInterfacesEnd ==
    /\ dStage = "interfaces"
    /\ \/ dCfg.assignments[dIdx].hostid = NoId
       \/ UnitInterfacePos > Len(dCfg.assignments[dIdx].hostinterfaces)
    /\ dStage' = "phase2"
    /\ UNCHANGED <<mEnv, dCfg, dIdx, dAttempts>>

\* global_sync.py:321-332: safe_sync(HostSync, assignment, skip_templates=False),
\* outside any try as well.
UnitPhase2 ==
    /\ dStage = "phase2"
    /\ \E o \in AnyOutcome(dCfg, UnitHostAttempt(FALSE)) :
          /\ dAttempts' = Append(dAttempts, UnitHostAttempt(FALSE) @@ [exc |-> o.exc, after |-> o.hostid])
          /\ dCfg' = [dCfg EXCEPT !.assignments[dIdx].hostid = o.hostid]
          /\ dStage' = IF o.exc = "none" THEN "done" ELSE "raised"
    /\ UNCHANGED <<mEnv, dIdx>>

\* -------------------------------------------------------- payload helpers
PureIdle ==
    /\ fOp = "none"
    /\ fIn = <<>>
    /\ fOut = <<>>

\* The requirement sets and interface types get_template_attributes is given:
\* up to MaxTplList assigned templates, each with any requirement set over
\* NONE, ANY and two concrete types; a host with any set of three types.
MaxTplList == 2
Requirements == SUBSET {"NONE", "ANY", "AGENT", "SNMP"}
InterfaceTypes == {"AGENT", "SNMP", "IPMI"}
TemplateInputs ==
    {[reqs |-> r, types |-> t] :
        r \in UNION {[1..n -> Requirements] : n \in 1..MaxTplList},
        t \in SUBSET InterfaceTypes}
TemplateBundle(in) ==
    [templates |-> [i \in DOMAIN in.reqs |-> [templateid |-> i, req |-> in.reqs[i]]],
     hostinterfaces |-> [i \in DOMAIN ListOf(in.types) |-> [type |-> ListOf(in.types)[i]]]]

TemplateInit ==
    /\ fOp = "none"
    /\ fIn \in TemplateInputs
    /\ fOut = <<>>

\* HostSync(...).get_template_attributes() on the bundle.
TemplateAttributesCall ==
    /\ fOp = "none"
    /\ fOp' = "get_template_attributes"
    /\ fOut' = get_template_attributes(TemplateBundle(fIn))
    /\ UNCHANGED fIn

\* The tag lists merge_zabbix_and_netbox_tags is given: up to MaxTagList tags
\* of the platform and as many local ones, over two names; a tag may lack its
\* key or its value, and a local tag may carry its key as "name".
MaxTagList == 2
RemoteTagEntries ==
    {[tag |-> n, value |-> "zb"] : n \in {"", "site", "env"}} \cup {[tag |-> "env"]}
LocalTagEntries ==
    {[tag |-> n, value |-> v] : n \in {"", "site", "env"}, v \in {"nb", "nb2"}}
        \cup {[name |-> "site", value |-> "nb"]}
TagInputs ==
    {[zabbix_tags |-> r, netbox_tags |-> l] :
        r \in SeqsUpTo(RemoteTagEntries, MaxTagList),
        l \in SeqsUpTo(LocalTagEntries, MaxTagList)}

TagInit ==
    /\ fOp = "none"
    /\ fIn \in TagInputs
    /\ fOut = <<>>

\* HostSync(...).merge_zabbix_and_netbox_tags(zabbix_tags, netbox_tags)
MergeTagsCall ==
    /\ fOp = "none"
    /\ fOp' = "merge_zabbix_and_netbox_tags"
    /\ fOut' = merge_zabbix_and_netbox_tags(fIn.zabbix_tags, fIn.netbox_tags)
    /\ UNCHANGED fIn

\* What the macros of a payload are built from: the bundle's macros (up to
\* MaxMacroList of them, each name once), its interfaces (up to MaxSnmpIfaces,
\* agent or SNMP v2c or SNMP v3 with both passphrases), the macro source of
\* truth, the record's host id (none, or host 1) and the macros host 1 has
\* on the platform; the platform has another host as well.
MaxMacroList == 2
MaxSnmpIfaces == 2
LocalMacroEntries ==
    {[macro |-> "{$LOCAL}", value |-> "nb"], [macro |-> SnmpCommunity, value |-> "nb"]}
RemoteMacroEntries ==
    {[macro |-> n, value |-> "zb"] : n \in {"{$LOCAL}", "{$REMOTE}", SnmpCommunity, SnmpAuthPass}}
MacroInterfaces ==
    {[type |-> "AGENT", snmp_version |-> 0, level |-> "NONE"],
     [type |-> "SNMP", snmp_version |-> 2, level |-> "NONE"],
     [type |-> "SNMP", snmp_version |-> 3, level |-> "AUTHPRIV"]}
MacroInputs ==
    {[macros |-> m, hostinterfaces |-> hi, hostmacro |-> sot, hostid |-> h, remote |-> r] :
        m \in {q \in DistinctSeqs(LocalMacroEntries) : Len(q) <= MaxMacroList},
        hi \in SeqsUpTo(MacroInterfaces, MaxSnmpIfaces),
        sot \in SyncSOT, h \in {NoId, 1}, r \in SUBSET RemoteMacroEntries}
MacroCfg(in) ==
    [sot |-> [hosttemplate |-> "NETBOX", hostmacro |-> in.hostmacro],
     bundle |-> [BundlePlain EXCEPT !.macros = in.macros, !.hostinterfaces = in.hostinterfaces]]
MacroWorld(in) ==
    [obj |-> [NewRecord EXCEPT !.id = in.hostid],
     gids |-> [g \in HostGroupPks |-> NoId],
     remote |-> [h \in HostIds |->
                    IF h = 1 /\ in.hostid = 1
                    THEN [AbsentHost EXCEPT !.exists = TRUE, !.macros = in.remote]
                    ELSE IF h = MaxHostId
                    THEN [AbsentHost EXCEPT !.exists = TRUE,
                                            !.macros = {[macro |-> "{$OTHER}", value |-> "zb"]}]
                    ELSE AbsentHost],
     next |-> 1, gnext |-> 1, log |-> <<>>]

MacroInit ==
    /\ fOp = "none"
    /\ fIn \in MacroInputs
    /\ fOut = <<>>

\* HostSync(...).get_macros() on the bundle: the list it returns, or the
\* error the lookup of the platform's macros raised.
MacrosCall ==
    /\ fOp = "none"
    /\ fOp' = "get_macros"
    /\ \E m \in get_defined_macros(MacroWorld(fIn), MacroCfg(fIn)) :
          fOut' = IF m.exc # NoExc THEN [exc |-> m.exc, macros |-> <<>>]
                  ELSE [exc |-> NoExc] @@ get_macros(m.val, MacroCfg(fIn).bundle)
    /\ UNCHANGED fIn

\* The proxy and proxy group of a host assignment: none, or one that was
\* never synced, or one with a remote id in 1..MaxProxyId.  The assignment's
\* validation lets at most one of the two be set.
MaxProxyId == 4
ProxyRefs == {<<>>} \cup {<<i>> : i \in {NoId} \cup 1..MaxProxyId}
ProxyInputs ==
    {in \in [proxy : ProxyRefs, proxygroup : ProxyRefs] : in.proxy = <<>> \/ in.proxygroup = <<>>}

ProxyInit ==
    /\ fOp = "none"
    /\ fIn \in ProxyInputs
    /\ fOut = <<>>

\* The assignment's proxy or proxy group is edited between two syncs.
AssignmentProxyChanged ==
    /\ fIn' \in ProxyInputs \ {fIn}
    /\ UNCHANGED <<fOp, fOut>>

\* HostSync(...).get_proxy_or_proxygroup() on the assignment.
ProxyPayloadCall ==
    /\ fOp' = "get_proxy_or_proxygroup"
    /\ fOut' = [obj |-> fIn, r |-> get_proxy_or_proxygroup(fIn)]
    /\ UNCHANGED fIn

\* ------------------------------------------------- two passes, one Target
\* views/syncall.py:16-27 enqueues one syncall job per request; two requests
\* for one Target give two passes that workers may run at the same time.
Runs == {1, 2}
QueuedRun == [pc |-> "queued", obj |-> NewRecord, faulted |-> FALSE]

RaceIdle == rRuns = [r \in Runs |-> QueuedRun]

\* The assignment of the Target was never synced, or was synced as host 1,
\* which the platform no longer has; its groups likewise.
RaceInit ==
    /\ hCfg \in HostConfigs
    /\ \E synced \in BOOLEAN :
          /\ hObj = [r \in HostRecs |->
                       IF synced /\ r = 1 THEN [id |-> 1, ok |-> "success", msg |-> <<>>] ELSE NewRecord]
          /\ hGids = [g \in HostGroupPks |-> IF synced THEN g ELSE NoId]
          /\ hNext = IF synced THEN 2 ELSE 1
          /\ hGNext = IF synced THEN Cardinality(HostGroupPks) + 1 ELSE 1
    /\ hRemote = [h \in HostIds |-> AbsentHost]
    /\ hRemPre = [h \in HostIds |-> AbsentHost]
    /\ hLog = <<>>
    /\ hLast = NoStep
    /\ hPrev = NoStep
    /\ rRuns = [r \in Runs |-> QueuedRun]

\* syncall.py:156-164, 184: the pass reads the Target's assignments from the
\* local store; from here on it works on its own copy of each record.
RunCollects(r) ==
    /\ rRuns[r].pc = "queued"
    /\ rRuns' = [rRuns EXCEPT ![r].pc = "hosts1", ![r].obj = hObj[1]]
    /\ UNCHANGED hostVars

\* What the local store holds for the assignment after a safe_sync call that
\* worked on the copy `mem` and ended as `res`: obj.save() writes every field
\* of the copy, obj.save(update_fields=["hostid"]) (hostsync.py:183) the id
\* alone; a call that saved nothing leaves the stored record alone.
StoredAfter(stored, mem, res) ==
    LET IsSave(c) == c.op = "save"
        saves == SelectSeq(res.w.log, IsSave)
    IN  [id  |-> IF saves # <<>> THEN saves[Len(saves)].hostid ELSE stored.id,
         ok  |-> IF res.exc = NoExc \/ res.w.obj.ok # mem.ok THEN res.w.obj.ok ELSE stored.ok,
         msg |-> IF res.exc = NoExc \/ res.w.obj.msg # mem.msg THEN res.w.obj.msg ELSE stored.msg]

\* syncall.py:121-153, one pass of the loop of _sync_hosts in pass r for the
\* assignment: safe_sync(HostSync, assignment, ...) on the pass's copy, without
\* templates in stage 1 and with them in stage 6; an exception is logged and
\* the pass goes on.  The stages in between do not touch the assignment.
RunSyncsHost(r) ==
    /\ rRuns[r].pc \in {"hosts1", "hosts2"}
    /\ \E res \in safe_sync_HostSync([obj |-> rRuns[r].obj, gids |-> hGids, remote |-> hRemote,
                                        next |-> hNext, gnext |-> hGNext, log |-> <<>>],
                                       hCfg, 1, rRuns[r].pc = "hosts1") :
          /\ res.w.next <= MaxHostId + 1
          /\ rRuns' = [rRuns EXCEPT
                ![r].pc = IF @ = "hosts1" THEN "hosts2" ELSE "done",
                ![r].obj = res.w.obj,
                ![r].faulted = @ \/ \E k \in DOMAIN res.w.log : res.w.log[k].err \in HostFaults]
          /\ hObj' = [hObj EXCEPT ![1] = StoredAfter(@, rRuns[r].obj, res)]
          /\ hGids' = res.w.gids
          /\ hRemote' = res.w.remote
          /\ hNext' = res.w.next
          /\ hGNext' = res.w.gnext
          /\ hLog' = res.w.log
    /\ UNCHANGED <<hCfg, hRemPre, hLast, hPrev>>

SafeInit == SafeStart /\ PipeIdle /\ IfIdle /\ HostIdle /\ PureIdle /\ ModeIdle /\ RaceIdle
SafeNext == SafeSyncCall /\ UNCHANGED <<pipeVars, ifVars, hostVars, pureVars, modeVars, raceVars>>
SpecSafe == SafeInit /\ [][SafeNext]_vars

AllInit == PipeInit /\ SafeIdle /\ IfIdle /\ HostIdle /\ PureIdle /\ ModeIdle /\ RaceIdle
AllNext ==
    \/ SyncallStart /\ UNCHANGED <<safeVars, ifVars, hostVars, pureVars, modeVars, raceVars>>
    \/ _sync_hosts /\ UNCHANGED <<safeVars, ifVars, hostVars, pureVars, modeVars, raceVars>>
    \/ _bulk_safe_sync /\ UNCHANGED <<safeVars, ifVars, hostVars, pureVars, modeVars, raceVars>>
    \/ _sync_host_interfaces /\ UNCHANGED <<safeVars, ifVars, hostVars, pureVars, modeVars, raceVars>>
    \/ StageEnd /\ UNCHANGED <<safeVars, ifVars, hostVars, pureVars, modeVars, raceVars>>
    \/ SyncallFinish /\ UNCHANGED <<safeVars, ifVars, hostVars, pureVars, modeVars, raceVars>>
SpecAll == AllInit /\ [][AllNext]_vars

IfNext ==
    \/ HostInterfaceSyncCall /\ UNCHANGED <<safeVars, pipeVars, hostVars, pureVars, modeVars, raceVars>>
    \/ RemoteInterfaceDeleted /\ UNCHANGED <<safeVars, pipeVars, hostVars, pureVars, modeVars, raceVars>>
    \/ AssignmentHostChanged /\ UNCHANGED <<safeVars, pipeVars, hostVars, pureVars, modeVars, raceVars>>
IfAllInit == IfInit /\ SafeIdle /\ PipeIdle /\ HostIdle /\ PureIdle /\ ModeIdle /\ RaceIdle
SpecIf == IfAllInit /\ [][IfNext]_vars

HostAllInit == HostInit /\ SafeIdle /\ PipeIdle /\ IfIdle /\ PureIdle /\ ModeIdle /\ RaceIdle
HostNext ==
    \/ HostSyncCall({1}) /\ UNCHANGED <<safeVars, pipeVars, ifVars, pureVars, modeVars, raceVars>>
    \/ RemoteHostDeleted /\ UNCHANGED <<safeVars, pipeVars, ifVars, pureVars, modeVars, raceVars>>
    \/ RemoteTemplateLinked /\ UNCHANGED <<safeVars, pipeVars, ifVars, pureVars, modeVars, raceVars>>
    \/ RemoteHostEdited /\ UNCHANGED <<safeVars, pipeVars, ifVars, pureVars, modeVars, raceVars>>
SpecHost == HostAllInit /\ [][HostNext]_vars

\* The two assignments synced in any order, the platform left alone.
PairNext == HostSyncCall(HostRecs) /\ UNCHANGED <<safeVars, pipeVars, ifVars, pureVars, modeVars, raceVars>>
SpecPair == HostAllInit /\ [][PairNext]_vars

TemplateAllInit == TemplateInit /\ SafeIdle /\ PipeIdle /\ IfIdle /\ HostIdle /\ ModeIdle /\ RaceIdle
TemplateNext == TemplateAttributesCall /\ UNCHANGED <<safeVars, pipeVars, ifVars, hostVars, modeVars, raceVars>>
SpecTemplates == TemplateAllInit /\ [][TemplateNext]_vars

\* The assignment synced again and again while groups are assigned to it.
GroupsNext ==
    \/ HostSyncCall({1}) /\ UNCHANGED <<safeVars, pipeVars, ifVars, pureVars, modeVars, raceVars>>
    \/ GroupAssigned /\ UNCHANGED <<safeVars, pipeVars, ifVars, pureVars, modeVars, raceVars>>
SpecGroups == HostAllInit /\ [][GroupsNext]_vars

StatusNext ==
    \/ HostSyncCall({1}) /\ UNCHANGED <<safeVars, pipeVars, ifVars, pureVars, modeVars, raceVars>>
    \/ StatusChanged /\ UNCHANGED <<safeVars, pipeVars, ifVars, pureVars, modeVars, raceVars>>
    \/ RemoteHostEdited /\ UNCHANGED <<safeVars, pipeVars, ifVars, pureVars, modeVars, raceVars>>
SpecStatus == HostAllInit /\ [][StatusNext]_vars

DupNext ==
    \/ SafeHostSyncCall({1}) /\ UNCHANGED <<safeVars, pipeVars, ifVars, pureVars, modeVars, raceVars>>
    \/ RemoteHostCreated /\ UNCHANGED <<safeVars, pipeVars, ifVars, pureVars, modeVars, raceVars>>
    \/ RemoteHostDeleted /\ UNCHANGED <<safeVars, pipeVars, ifVars, pureVars, modeVars, raceVars>>
SpecDup == HostAllInit /\ [][DupNext]_vars

ModeAllInit == ModeInit /\ SafeIdle /\ IfIdle /\ HostIdle /\ PureIdle /\ RaceIdle
ModeNext ==
    \/ SyncallOnEnv /\ UNCHANGED <<safeVars, ifVars, hostVars, pureVars, modeVars, raceVars>>
    \/ DecomposedStart /\ UNCHANGED <<safeVars, pipeVars, ifVars, hostVars, pureVars, raceVars>>
    \/ sync_proxy_groups /\ UNCHANGED <<safeVars, pipeVars, ifVars, hostVars, pureVars, raceVars>>
    \/ sync_proxies /\ UNCHANGED <<safeVars, pipeVars, ifVars, hostVars, pureVars, raceVars>>
    \/ sync_hostgroups_to_zabbix /\ UNCHANGED <<safeVars, pipeVars, ifVars, hostVars, pureVars, raceVars>>
    \/ synchost_assignment /\ UNCHANGED <<safeVars, pipeVars, ifVars, hostVars, pureVars, raceVars>>
    \/ DecomposedEnd /\ UNCHANGED <<safeVars, pipeVars, ifVars, hostVars, pureVars, raceVars>>
SpecModes == ModeAllInit /\ [][ModeNext]_vars

TagAllInit == TagInit /\ SafeIdle /\ PipeIdle /\ IfIdle /\ HostIdle /\ ModeIdle /\ RaceIdle
TagNext == MergeTagsCall /\ UNCHANGED <<safeVars, pipeVars, ifVars, hostVars, modeVars, raceVars>>
SpecTags == TagAllInit /\ [][TagNext]_vars

MacroAllInit == MacroInit /\ SafeIdle /\ PipeIdle /\ IfIdle /\ HostIdle /\ ModeIdle /\ RaceIdle
MacroNext == MacrosCall /\ UNCHANGED <<safeVars, pipeVars, ifVars, hostVars, modeVars, raceVars>>
SpecMacros == MacroAllInit /\ [][MacroNext]_vars

ProxyAllInit == ProxyInit /\ SafeIdle /\ PipeIdle /\ IfIdle /\ HostIdle /\ ModeIdle /\ RaceIdle
ProxyNext ==
    /\ AssignmentProxyChanged \/ ProxyPayloadCall
    /\ UNCHANGED <<safeVars, pipeVars, ifVars, hostVars, modeVars, raceVars>>
SpecProxy == ProxyAllInit /\ [][ProxyNext]_vars

\* The interface stage of a pass, and deletions on the platform.
CountAllInit == CountInit /\ SafeIdle /\ HostIdle /\ PureIdle /\ ModeIdle /\ RaceIdle
CountNext ==
    \/ SyncInterfaceItem /\ UNCHANGED <<safeVars, hostVars, pureVars, modeVars, raceVars>>
    \/ RemoteInterfaceDeleted /\ UNCHANGED <<safeVars, pipeVars, hostVars, pureVars, modeVars, raceVars>>
SpecCount == CountAllInit /\ [][CountNext]_vars

UnitAllInit == UnitInit /\ SafeIdle /\ PipeIdle /\ IfIdle /\ HostIdle /\ PureIdle /\ RaceIdle
UnitNext ==
    \/ UnitPhase1 /\ UNCHANGED <<safeVars, pipeVars, ifVars, hostVars, pureVars, raceVars>>
    \/ UnitInterface /\ UNCHANGED <<safeVars, pipeVars, ifVars, hostVars, pureVars, raceVars>>
    \/ UnitInterfacesEnd /\ UNCHANGED <<safeVars, pipeVars, ifVars, hostVars, pureVars, raceVars>>
    \/ UnitPhase2 /\ UNCHANGED <<safeVars, pipeVars, ifVars, hostVars, pureVars, raceVars>>
SpecUnit == UnitAllInit /\ [][UnitNext]_vars

RaceAllInit == RaceInit /\ SafeIdle /\ PipeIdle /\ IfIdle /\ PureIdle /\ ModeIdle
RaceNext ==
    \/ (\E r \in Runs : RunCollects(r)) /\ UNCHANGED <<safeVars, pipeVars, ifVars, pureVars, modeVars>>
    \/ (\E r \in Runs : RunSyncsHost(r)) /\ UNCHANGED <<safeVars, pipeVars, ifVars, pureVars, modeVars>>
SpecRace == RaceAllInit /\ [][RaceNext]_vars

\* ================================================================ claims
\* The wrapped sync of the last safe_sync call raised the remote platform's
\* "already exists" error, so the call went into recovery.
Recovering == sRun.kind = "APIRequestError" /\ _is_already_exists_error(sRun)

\* The natural-key lookups of the last call, and its recovery updates.
Lookups == {i \in 1..Len(sLog) : sLog[i].op = "get_by_name"}
RecoveryUpdates == {i \in 1..Len(sLog) : sLog[i].op = "update" /\ sLog[i].conn = "recovery"}

\* C1: when the wrapped sync raises "already exists" and the natural-key
\* lookup is answered, there is exactly one lookup; on exactly one match
\* there is exactly one update, against the found identifier, and when it
\* succeeds the identifier is stored on the record and the found record is
\* returned; on zero matches, or two or more, the call raises and issues
\* no update.
C1_DuplicateRecovery ==
    (Recovering /\ \E i \in Lookups : sLog[i].err = "none") =>
        /\ Cardinality(Lookups) = 1
        /\ \A i \in Lookups :
             /\ (Len(sLog[i].ans) = 1 /\ sLog[i].ans[1] # NoId) =>
                   /\ Cardinality(RecoveryUpdates) = 1
                   /\ \A u \in RecoveryUpdates : sLog[u].id = sLog[i].ans[1]
                   /\ sExc = NoExc =>
                         /\ sObj.id = sLog[i].ans[1]
                         /\ sRet = [tag |-> "found", id |-> sLog[i].ans[1]]
             /\ Len(sLog[i].ans) # 1 =>
                   /\ sExc # NoExc
                   /\ RecoveryUpdates = {}

\* C2: whatever fails in a safe_sync call, the caller sees a RuntimeError
\* that names the entity type, and no other exception kind.
C2_UniformErrorKind ==
    sExc # NoExc =>
        /\ sExc.kind = "RuntimeError"
        /\ Contains(sExc.str, <<"HostGroupSync">>)

\* ------------------------------------------------------- pipeline claims
\* The stage an attempt belongs to, 1..6, read off the adapter and its
\* skip_templates argument.
AttemptRank(a) ==
    CASE a.cls = "HostSync" /\ a.skip_templates  -> 1
      [] a.cls = "ProxyGroupSync"                 -> 2
      [] a.cls = "ProxySync"                      -> 3
      [] a.cls = "HostGroupSync"                  -> 4
      [] a.cls = "HostInterfaceSync"              -> 5
      [] a.cls = "HostSync" /\ ~a.skip_templates -> 6

\* The items the Target's local store holds for each stage.
ItemsOfRank(r) ==
    CASE r \in {1, 6} -> {<<a>> : a \in 1..Len(pCfg.assignments)}
      [] r = 2 -> {<<i>> : i \in 1..pCfg.proxy_groups}
      [] r = 3 -> {<<i>> : i \in 1..pCfg.proxies}
      [] r = 4 -> {<<g>> : g \in {h \in HostGroupPks :
                     \E a \in 1..Len(pCfg.assignments) :
                       \E k \in 1..Len(pCfg.assignments[a].hostgroups) :
                         pCfg.assignments[a].hostgroups[k] = h}}
      [] r = 5 -> UNION {{pCfg.assignments[a].hostinterfaces[k]
                            : k \in 1..Len(pCfg.assignments[a].hostinterfaces)}
                           : a \in 1..Len(pCfg.assignments)}

AttemptsOf(r, x) ==
    {i \in 1..Len(pAttempts) : AttemptRank(pAttempts[i]) = r /\ pAttempts[i].item = x}

\* C3: the attempts of a pass come in stage order (hosts without templates,
\* proxy groups, proxies, host groups, host interfaces, hosts with
\* templates), and when an attempt of a stage is issued every item of every
\* earlier stage has been attempted.
C3_StageOrder ==
    /\ \A i, j \in 1..Len(pAttempts) :
          i < j => AttemptRank(pAttempts[i]) <= AttemptRank(pAttempts[j])
    /\ \A j \in 1..Len(pAttempts) :
          \A r \in 1..(AttemptRank(pAttempts[j]) - 1) :
            \A x \in ItemsOfRank(r) : \E i \in AttemptsOf(r, x) : i < j

\* A pass that has run to its end with items in all six stages.
C3_Witness ==
    /\ pStage = "done"
    /\ \A r \in 1..6 : \E i \in 1..Len(pAttempts) : AttemptRank(pAttempts[i]) = r
    /\ Len(pCfg.assignments) = MaxAssignments

\* C4: whatever attempts raise, the pass goes on to its end, and at the end
\* every item of every stage has been attempted exactly once: every
\* assignment has its two HostSync attempts, phase 1 and phase 2.
C4_FailureIsolation ==
    /\ pStage # "done" => ENABLED AllNext
    /\ pStage = "done" =>
          /\ \A r \in 1..6 : \A x \in ItemsOfRank(r) : Cardinality(AttemptsOf(r, x)) = 1
          /\ \A i \in 1..Len(pAttempts) :
                pAttempts[i].item \in ItemsOfRank(AttemptRank(pAttempts[i]))
          /\ \A a \in 1..Len(pCfg.assignments) :
                Cardinality({i \in 1..Len(pAttempts) :
                               pAttempts[i].cls = "HostSync" /\ pAttempts[i].item = <<a>>}) = 2

\* A pass that has run to its end although attempts of it raised.
C4_Witness ==
    /\ pStage = "done"
    /\ Len(pCfg.assignments) = MaxAssignments
    /\ pTracker.completed + 2 <= Len(pAttempts)

\* ---------------------------------------------------------------- C5, C6
ICount(op) == Cardinality({k \in DOMAIN iLog : iLog[k].op = op})
ICreated == \E k \in DOMAIN iLog : iLog[k].op = "hostinterface.create" /\ iLog[k].err = NoExc
\* The last sync verified the stored interface id.
IVerified == iPre.id # NoId /\ iLog # <<>> /\ iLog[1].op = "hostinterface.get"
\* ... and the platform did not have the interface, or the verification failed.
IMissing == IVerified /\ (iLog[1].err # NoExc \/ iRemPre[iPre.id] = NoId)
\* ... and the platform had it, and answered the update with `e`.
IUpdateAnswered(e) ==
    /\ IVerified /\ iLog[1].err = NoExc /\ iRemPre[iPre.id] # NoId
    /\ Len(iLog) >= 2 /\ iLog[2].op = "hostinterface.update" /\ e = iLog[2].err
ISwitchRejected == \E e \in {ErrSwitchHost} : IUpdateAnswered(e)
IOtherRejected == \E e \in IfaceFaults : IUpdateAnswered(e)

\* C5: a HostInterfaceSync sync of a record whose stored interface id the
\* platform reports as not found, or whose verification call raises any error,
\* clears the stored id (and persists that), issues exactly one create and no
\* update, raises no error, and when the create succeeds has persisted the new
\* id with status success.
C5_MissingInterfaceRecreated ==
    IMissing =>
        /\ Len(iLog) >= 2 /\ iLog[2] = ICall("save", NoId, NoId, NoExc)
        /\ ICount("hostinterface.create") = 1
        /\ ICount("hostinterface.update") = 0
        /\ iExc = NoExc
        /\ ICreated =>
            /\ iObj.id = iLog[3].interfaceid
            /\ iObj.id \in IfaceIds /\ iRemPre[iObj.id] = NoId
            /\ iLog[Len(iLog)] = ICall("save", iObj.id, NoId, NoExc)
            /\ iObj.ok = "success"
        /\ ~ICreated => iObj.id = NoId

C5_Witness == IMissing /\ ICreated /\ iLog[1].err # NoExc /\ iObj.id = MaxIfaceId

\* C6 as stated: a rejected host switch ends with the id cleared, exactly one
\* create, the new id persisted, status success with the recreation message
\* and no error; any other update error ends with status failed, the id
\* unchanged, no create, and the error re-raised.
C6_SwitchRecreatesOrReraises ==
    /\ ISwitchRejected =>
        /\ Len(iLog) >= 3 /\ iLog[3] = ICall("save", NoId, NoId, NoExc)
        /\ ICount("hostinterface.create") = 1
        /\ iObj.id # NoId /\ iObj.id # iPre.id
        /\ iObj.ok = "success" /\ iObj.msg = <<"Recreated", "interface">>
        /\ iExc = NoExc
    /\ IOtherRejected =>
        /\ iObj.ok = "failed"
        /\ iObj.id = iPre.id
        /\ ICount("hostinterface.create") = 0
        /\ iExc = iLog[2].err

\* C6, amended: after a rejected host switch the id is cleared, exactly one
\* create is issued and no error is raised; when that create succeeds the new
\* id is persisted with status success and the recreation message, when it
\* fails the id stays cleared with status failed.  Any other update error ends
\* with status failed, the id unchanged, no create, and the error re-raised.
C6_SwitchRecreatesWhenCreateSucceeds ==
    /\ ISwitchRejected =>
        /\ Len(iLog) >= 3 /\ iLog[3] = ICall("save", NoId, NoId, NoExc)
        /\ ICount("hostinterface.create") = 1
        /\ iExc = NoExc
        /\ ICreated =>
            /\ iObj.id = iLog[4].interfaceid
            /\ iObj.id \in IfaceIds /\ iObj.id # iPre.id /\ iRemPre[iObj.id] = NoId
            /\ iLog[Len(iLog)] = ICall("save", iObj.id, NoId, NoExc)
            /\ iObj.ok = "success" /\ iObj.msg = <<"Recreated", "interface">>
        /\ ~ICreated => iObj.id = NoId /\ iObj.ok = "failed"
    /\ IOtherRejected =>
        /\ iObj.ok = "failed" /\ iObj.msg = iLog[2].err.str
        /\ iObj.id = iPre.id
        /\ ICount("hostinterface.create") = 0
        /\ iExc = iLog[2].err

C6_Witness == ISwitchRejected /\ ICreated /\ iObj.id = MaxIfaceId

\* ------------------------------------------------------------ C7, C8, C10
HSynced == hLast.kind \in {"create", "update", "failed"}
HCalls(op) == {k \in DOMAIN hLog : hLog[k].op = op}
HDone(op) == {k \in HCalls(op) : hLog[k].err = NoExc}
HPayloads == HCalls("host.create") \cup HCalls("host.update")
\* The last sync found that the platform no longer has the stored host id.
HVanished ==
    /\ HSynced /\ hLast.pre.id # NoId /\ ~hRemPre[hLast.pre.id].exists
    /\ hLog # <<>> /\ hLog[1].op = "host.get" /\ hLog[1].err = NoExc
\* Nothing failed before the host create call: no group creation, no lookup.
HPrepared ==
    \A k \in HCalls("hostgroup.create") \cup (HCalls("host.get") \ {1}) : hLog[k].err = NoExc
HCreateDone ==
    \A k \in HDone("host.create") :
        /\ hObj[hLast.rec].id = hLog[k].hostid /\ hLog[k].hostid \in HostIds
        /\ ~hRemPre[hLog[k].hostid].exists
        /\ hLog[Len(hLog)] = HCall("save", hLog[k].hostid, EmptyMap, NoExc)
        /\ hObj[hLast.rec].ok = "success"
        /\ hLast.exc = NoExc

\* C7 as stated: a sync of a record whose stored host id the platform no
\* longer has clears the id, persists that, and issues exactly one create and
\* no update; when the create succeeds the new id is persisted and success
\* recorded.
C7_VanishedHostRecreated ==
    HVanished =>
        /\ Len(hLog) >= 2 /\ hLog[2] = HCall("save", NoId, EmptyMap, NoExc)
        /\ Cardinality(HCalls("host.create")) = 1
        /\ HCalls("host.update") = {}
        /\ HCreateDone

\* C7, amended: such a sync clears the id, persists that, and falls back to
\* creation: no update and at most one create, exactly one when the group
\* bootstrap and the assembly of the payload raise no error; when the create
\* succeeds the new id is persisted and success recorded, otherwise the id
\* stays cleared and a RuntimeError is raised.
C7_VanishedHostFallsBackToCreate ==
    HVanished =>
        /\ Len(hLog) >= 2 /\ hLog[2] = HCall("save", NoId, EmptyMap, NoExc)
        /\ Cardinality(HCalls("host.create")) <= 1
        /\ HPrepared => Cardinality(HCalls("host.create")) = 1
        /\ HCalls("host.update") = {}
        /\ HCreateDone
        /\ HDone("host.create") = {} =>
              hObj[hLast.rec].id = NoId /\ hLast.exc.kind = "RuntimeError"

C7_Witness == HVanished /\ HDone("host.create") # {} /\ hObj[1].id = MaxHostId

\* C8: a payload built with skip_templates=true has neither a templates nor a
\* templates_clear key; an update payload built with skip_templates=false
\* under template source of truth NETBOX (the local store) has both, with
\* templates the intended set and templates_clear exactly the templates
\* linked on the platform that are not intended.
C8_TemplateKeys ==
    HSynced =>
        \A k \in HPayloads :
            LET p == hLog[k].params
            IN  /\ hLast.skip_templates =>
                    "templates" \notin DOMAIN p /\ "templates_clear" \notin DOMAIN p
                /\ (/\ hLog[k].op = "host.update" /\ ~hLast.skip_templates
                    /\ hCfg.sot.hosttemplate = "NETBOX") =>
                    /\ {"templates", "templates_clear"} \subseteq DOMAIN p
                    /\ p.templates = get_template_attributes(hCfg.bundle).templates
                    /\ p.templates_clear
                         = hRemPre[p.hostid].templates \ Range(p.templates)

C8_Witness ==
    /\ HSynced /\ ~hLast.skip_templates /\ hCfg.sot.hosttemplate = "NETBOX"
    /\ \E k \in HDone("host.update") :
          /\ hLog[k].params.templates_clear # {}
          /\ hLog[k].params.templates # <<>>

\* What C10 compares: the host's tags, macros, templates, groups and status.
RemoteHostState(host) ==
    [tags |-> host.tags, macros |-> host.macros, templates |-> host.templates,
     groups |-> host.groups, status |-> host.status]
\* The last two steps were syncs of one record with one context, the first a
\* create or an update and the second an update, and no call of the two
\* failed.
HTwice(first) ==
    /\ hPrev.kind = first /\ hLast.kind = "update"
    /\ hPrev.clean /\ hLast.clean
    /\ hPrev.rec = hLast.rec /\ hPrev.skip_templates = hLast.skip_templates

\* C10: the second of two syncs in succession, with no other change in
\* between, leaves the host on the platform as the first left it, whether
\* the first created or updated the host.
C10_SecondRunFixedPoint ==
    (HTwice("create") \/ HTwice("update")) =>
        RemoteHostState(hRemote[hObj[hLast.rec].id])
            = RemoteHostState(hRemPre[hObj[hLast.rec].id])


\* -------------------------------------------------------------------- C9
\* The last two steps synced the two records one after the other, each had
\* its own stored host id, the platform had both hosts, and no lookup failed.
HPairSynced ==
    /\ hPrev.rec \in HostRecs /\ hLast.rec \in HostRecs /\ hPrev.rec # hLast.rec
    /\ hPrev.existed /\ hLast.existed /\ hPrev.pre.id # hLast.pre.id
    /\ hPrev.looked /\ hLast.looked

\* C9: two host records synced in sequence, each with its own stored host id
\* and with display names of which one is a prefix of the other, issue
\* exactly two update calls: the first carries the first record's id and
\* name, the second the second record's; neither stored id becomes the
\* other's.
C9_OwnIdentityUpdated ==
    HPairSynced =>
        /\ hPrev.updates = <<[hostid |-> hPrev.pre.id, name |-> DisplayName(hPrev.rec)]>>
        /\ hLast.updates = <<[hostid |-> hLast.pre.id, name |-> DisplayName(hLast.rec)]>>
        /\ hObj[hPrev.rec].id = hPrev.pre.id
        /\ hObj[hLast.rec].id = hLast.pre.id

C9_Witness ==
    /\ HPairSynced /\ hPrev.kind = "update" /\ hLast.kind = "update"
    /\ hPrev.rec = 2 /\ hObj[2].id = 1

\* ------------------------------------------------------------------- C11
TemplatesApplied == fOp = "get_template_attributes"
TemplateTaken(i) == \E k \in DOMAIN fOut.templates : fOut.templates[k] = i

\* C11 as stated: a template is included iff its requirement set without NONE
\* and ANY is empty, or it requires ANY and the host has an interface, or
\* that set is a subset of the host's interface types.
C11_InclusionLaw ==
    TemplatesApplied =>
        \A i \in DOMAIN fIn.reqs :
            TemplateTaken(i) <=>
                \/ fIn.reqs[i] \ {"NONE", "ANY"} = {}
                \/ "ANY" \in fIn.reqs[i] /\ fIn.types # {}
                \/ (fIn.reqs[i] \ {"NONE", "ANY"}) \subseteq fIn.types

\* C11, amended: a template is included iff its requirement set without NONE
\* and ANY is a subset of the host's interface types and, when it requires
\* ANY, the host has an interface; the included templates keep their order
\* and each appears once.
C11_InclusionRule ==
    TemplatesApplied =>
        /\ \A i \in DOMAIN fIn.reqs :
            TemplateTaken(i) <=>
                /\ (fIn.reqs[i] \ {"NONE", "ANY"}) \subseteq fIn.types
                /\ "ANY" \in fIn.reqs[i] => fIn.types # {}
        /\ \A k, l \in DOMAIN fOut.templates : k < l => fOut.templates[k] < fOut.templates[l]

C11_Witness ==
    /\ TemplatesApplied /\ Len(fIn.reqs) = MaxTplList
    /\ fIn.reqs[1] = {"ANY", "SNMP"} /\ fIn.types = {"AGENT"} /\ ~TemplateTaken(1)
    /\ fIn.reqs[MaxTplList] = {"NONE"} /\ TemplateTaken(MaxTplList)

\* ------------------------------------------------------------------- C12
TagsMerged == fOp = "merge_zabbix_and_netbox_tags"
TagNames(tags) == {TagKey(tags[i]) : i \in DOMAIN tags} \ {""}
\* The value of the last tag of `tags` that has the name.
LastValue(tags, name) ==
    LET last == CHOOSE i \in DOMAIN tags :
                    /\ TagKey(tags[i]) = name
                    /\ \A j \in DOMAIN tags : TagKey(tags[j]) = name => j <= i
    IN  TagGet(tags[last], "value")

\* C12: the merge of the platform's tags R and the local tags L has exactly
\* one entry per distinct tag name of R and L, and for a name in both the
\* entry has the value L gives it (for a name in R only, the value R gives).
C12_TagMerge ==
    TagsMerged =>
        LET names == TagNames(fIn.zabbix_tags) \cup TagNames(fIn.netbox_tags)
        IN  /\ Len(fOut) = Cardinality(names)
            /\ \A n \in names :
                \E k \in DOMAIN fOut :
                    /\ fOut[k].tag = n
                    /\ \A l \in DOMAIN fOut : fOut[l].tag = n => l = k
                    /\ fOut[k].value = IF n \in TagNames(fIn.netbox_tags)
                                       THEN LastValue(fIn.netbox_tags, n)
                                       ELSE LastValue(fIn.zabbix_tags, n)

C12_Witness ==
    /\ TagsMerged
    /\ fIn.zabbix_tags = <<[tag |-> "site", value |-> "zb"], [tag |-> "env"]>>
    /\ fIn.netbox_tags = <<[name |-> "site", value |-> "nb"], [tag |-> "", value |-> "nb"]>>
    /\ fOut = <<[tag |-> "site", value |-> "nb"], [tag |-> "env", value |-> ""]>>

\* ------------------------------------------------------------------- C13
\* The last remote call of the safe_sync call was an update or a create, and
\* it raised.
RemoteWriteFailed ==
    /\ sLog # <<>>
    /\ sLog[Len(sLog)].op \in {"update", "create"}
    /\ sLog[Len(sLog)].err # "none"

\* C13: when the remote update or create of a sync operation raises, the
\* record's remote identifier and sync status are what they were before the
\* call: no success and no new identifier is recorded.
C13_FailedCallLeavesRecord ==
    RemoteWriteFailed => (sObj.id = sPre.id /\ sObj.ok = sPre.ok)

\* ------------------------------------------------------------------- C14
\* The last HostInterfaceSync sync wrote the status success (every path of the
\* sync writes a status, so the status after it is the one it wrote).
IWroteSuccess == iLog # <<>> /\ iObj.ok = "success"
\* Interface i was on the platform when the last sync returned: it was there
\* before and the sync deletes nothing, or the sync created it.
IOnPlatformAtReturn(i) ==
    \/ i \in IfaceIds /\ iRemPre[i] # NoId
    \/ \E k \in DOMAIN iLog :
          iLog[k].op = "hostinterface.create" /\ iLog[k].err = NoExc /\ iLog[k].interfaceid = i

InterfaceItems == StageItems(pCfg, pCollected, "hostinterfaces")

\* C17: while the host-interfaces stage of syncall runs, the host ID each
\* interface is given as sync context is its assignment's remote host ID as
\* phase 1 left it, a newly created or re-created host's ID included.
C17_ContextIsCurrentHostId ==
    pStage = "hostinterfaces" =>
        \A k \in DOMAIN InterfaceItems :
            InterfaceItems[k].hostid = pCfg.assignments[InterfaceItems[k].item[1]].hostid

\* ------------------------------------------------------------------- C15
\* The wrapped sync looked the stored id up and the platform had it.
FoundById ==
    \E i \in DOMAIN sLog :
        sLog[i].op = "get_by_id" /\ sLog[i].err = "none" /\ sLog[i].ans # <<>>
RunCalls(op) == {i \in DOMAIN sLog : sLog[i].conn = "run" /\ sLog[i].op = op}

\* C15: when the default sync finds the stored id on the platform, under the
\* policy REMOTE it pulls the platform's state into the record and issues no
\* update, and under LOCAL it issues an update and pulls nothing.
C15_FoundFollowsPolicy ==
    FoundById =>
        /\ sSot = "ZABBIX" => (RunCalls("update") = {} /\ RunCalls("sync_from_zabbix") # {})
        /\ sSot = "NETBOX" => (RunCalls("update") # {} /\ RunCalls("sync_from_zabbix") = {})

\* ------------------------------------------------------------------- C16
\* The platform answered the last sync's create without an identifier.
INoIdentifier ==
    \E k \in DOMAIN iLog : iLog[k].op = "hostinterface.create" /\ iLog[k].err = ErrNoIdentifier

\* C16, for the host-interface adapter: a creation that succeeded leaves the
\* returned id on the record, persisted, with status success; a creation
\* answered without identifier raises to the caller, leaves the id unset and
\* records no success.
C16_CreateStoresOrRaises ==
    /\ ICreated =>
          \E k \in DOMAIN iLog :
              /\ iLog[k].op = "hostinterface.create" /\ iLog[k].err = NoExc
              /\ iObj.id = iLog[k].interfaceid /\ iObj.id # NoId
              /\ k < Len(iLog) /\ iLog[k + 1] = ICall("save", iObj.id, NoId, NoExc)
              /\ iObj.ok = "success"
    /\ INoIdentifier => (iExc # NoExc /\ iObj.id = NoId /\ iObj.ok # "success")

\* ------------------------------------------------------------------- C18
\* How the last safe_sync call of a run on record (cls, item) ended: "none"
\* for a record the run did not sync, else "synced" or "raised".
LastOutcome(attempts, cls, item) ==
    LET on == {i \in DOMAIN attempts : attempts[i].cls = cls /\ attempts[i].item = item}
        last == CHOOSE i \in on : \A j \in on : j <= i
    IN  IF on = {} THEN "none"
        ELSE IF cls = "HostSync" /\ attempts[last].skip_templates /\ item[1] \in mEnv.fails
        THEN "raised" ELSE "synced"
Records ==
    {<<"HostSync", <<a>>>> : a \in 1..Len(pCfg.assignments)}
    \cup {<<"HostInterfaceSync", <<a, k>>>> :
            a \in 1..Len(pCfg.assignments), k \in 1..MaxIfaces}
    \cup {<<"HostGroupSync", <<g>>>> : g \in HostGroupPks}
    \cup {<<"ProxyGroupSync", <<i>>>> : i \in 1..MaxProxies}
    \cup {<<"ProxySync", <<i>>>> : i \in 1..MaxProxies}
BothDone == pStage = "done" /\ dStage = "done"

\* C18: from one start, on one platform, syncall and the decomposed mode end
\* in the same state, of which this is the part the runs' calls decide: the
\* same hostid on every assignment, and every record synced by both or by
\* neither, with the same end; runs where a host is created or re-created or
\* where a host's phase 1 fails included.
C18_ModesAgree ==
    BothDone =>
        /\ \A a \in 1..Len(pCfg.assignments) :
              pCfg.assignments[a].hostid = dCfg.assignments[a].hostid
        /\ \A r \in Records :
              LastOutcome(pAttempts, r[1], r[2]) = LastOutcome(dAttempts, r[1], r[2])

\* ------------------------------------------------------------------- C19
\* The platform's host that has the display name of record rec.
NamedHosts(remote, rec) == {h \in HostIds : remote[h].exists /\ remote[h].name = DisplayName(rec)}
\* The last step was a safe_sync(HostSync, ...) of a record without stored id
\* whose host was on the platform under the same name, and the platform
\* failed no call but the create it answered with "already exists".
HConflict ==
    /\ hLast.kind \in {"create", "update", "failed"}
    /\ hLast.pre.id = NoId
    /\ NamedHosts(hRemPre, hLast.rec) # {}
    /\ \A k \in DOMAIN hLog :
          hLog[k].err # NoExc => (hLog[k].op = "host.create" /\ hLog[k].err = ErrDuplicate)

\* C19: safe_sync(HostSync, record) on a record without stored id whose host
\* is on the platform under the same name does not fail, leaves the existing
\* host's id on the record and creates no second host.
C19_ConflictAbsorbed ==
    HConflict =>
        /\ hLast.exc = NoExc
        /\ hObj[hLast.rec].id \in NamedHosts(hRemPre, hLast.rec)
        /\ \A h \in HostIds : hRemote[h].exists => hRemPre[h].exists

\* ------------------------------------------------------------------- C20
SyncInvocations == {i \in DOMAIN sLog : sLog[i].op = "sync"}
RecoveryConnections == {i \in DOMAIN sLog : sLog[i].op = "connect" /\ sLog[i].conn = "recovery"}

\* C20: a safe_sync call invokes the wrapped sync exactly once and recovers
\* at most once: one connection, one lookup and one update at most; a
\* recovery update that fails is the call's last remote call and the call
\* fails with its error, "already exists" included.
C20_SingleRecovery ==
    sLog # <<>> =>
        /\ Cardinality(SyncInvocations) = 1
        /\ Cardinality(RecoveryConnections) <= 1
        /\ Cardinality(Lookups) <= 1
        /\ Cardinality(RecoveryUpdates) <= 1
        /\ \A u \in RecoveryUpdates :
              sLog[u].err # "none" => (u = Len(sLog) /\ sExc # NoExc)

\* The recovery update of a call failed with "already exists" in its turn.
C20_Witness ==
    /\ Recovering
    /\ \E u \in RecoveryUpdates : sLog[u].err = "APIRequestError"
    /\ sExc = ErrDuplicate


\* ------------------------------------------------------------------- C21
\* The wrapped sync of the last safe_sync call returned.
SyncReturned ==
    \E i \in SyncInvocations : sLog[i].err = "none"

\* C21: when the wrapped sync returns without error, safe_sync returns its
\* result unchanged, has invoked the sync exactly once, with the caller's
\* extra arguments, and has made no natural-key lookup, no update of its own
\* and opened no connection of its own.
C21_PassThrough ==
    SyncReturned =>
        /\ sExc = NoExc
        /\ sRet = RawRet
        /\ Cardinality(SyncInvocations) = 1
        /\ \A i \in SyncInvocations : sLog[i].args = sArgs
        /\ Lookups = {}
        /\ RecoveryUpdates = {}
        /\ RecoveryConnections = {}

\* A call with extra arguments whose wrapped sync found the record's
\* resource, updated it and returned.
C21_Witness ==
    /\ SyncReturned
    /\ sArgs # EmptyMap
    /\ \E i \in 1..Len(sLog) : sLog[i].op = "update" /\ sLog[i].conn = "run"


\* ------------------------------------------------------------------- C22
\* The last step was a sync of a record without stored host id.
HNeverSynced == HSynced /\ hLast.pre.id = NoId

\* C22: a sync of a record without stored host id looks no host up on the
\* platform, neither by id nor by name, and (when no group creation failed
\* before it) issues exactly one host create, under the record's own name.
C22_CreateWithoutLookup ==
    HNeverSynced =>
        /\ HCalls("host.get") = {}
        /\ \A k \in HCalls("host.create") : hLog[k].params.name = DisplayName(hLast.rec)
        /\ Cardinality(HCalls("host.create")) <= 1
        /\ (\A k \in HCalls("hostgroup.create") : hLog[k].err = NoExc)
              => Cardinality(HCalls("host.create")) = 1


\* ------------------------------------------------------------------- C23
\* The update payloads of the last sync that were built with templates,
\* under template source of truth ZABBIX (the platform).
HRemoteWinsUpdates ==
    {k \in HCalls("host.update") :
        HSynced /\ ~hLast.skip_templates /\ hCfg.sot.hosttemplate = "ZABBIX"}

\* C23: under template source of truth ZABBIX the update payload built with
\* templates has no templates_clear key, and its templates are the intended
\* local ones and, once each, every template linked on the platform that is
\* not intended; the update that goes through unlinks no template.
C23_RemoteTemplatesKept ==
    \A k \in HRemoteWinsUpdates :
        LET p == hLog[k].params
            intended == get_template_attributes(hCfg.bundle).templates
            linked == hRemPre[p.hostid].templates
        IN  /\ "templates_clear" \notin DOMAIN p
            /\ "templates" \in DOMAIN p
            /\ Len(p.templates) >= Len(intended)
            /\ SubSeq(p.templates, 1, Len(intended)) = intended
            /\ Range(p.templates) = Range(intended) \cup linked
            /\ Len(p.templates) = Len(intended) + Cardinality(linked \ Range(intended))
            /\ hLog[k].err = NoExc => linked \subseteq hRemote[p.hostid].templates

\* Such an update went through on a host that had a template linked on the
\* platform only, next to a local one.
C23_Witness ==
    \E k \in HRemoteWinsUpdates :
        /\ hLog[k].err = NoExc
        /\ hRemPre[hLog[k].params.hostid].templates
              \ Range(get_template_attributes(hCfg.bundle).templates) # {}
        /\ get_template_attributes(hCfg.bundle).templates # <<>>


\* ------------------------------------------------------------------- C24
\* C24: get_template_attributes takes a template when its requirements are
\* NONE alone; otherwise it leaves the template out when ANY is required and
\* the host has no interface, or when a concrete required type is missing
\* from the host's interface types; otherwise it takes it (a template that
\* requires nothing is taken).
C24_OrderedRules ==
    TemplatesApplied =>
        \A i \in DOMAIN fIn.reqs :
            LET req == fIn.reqs[i]
                none_only == req = {"NONE"}
                any_unmet == "ANY" \in req /\ fIn.types = {}
                type_missing == \E t \in req : t \notin {"NONE", "ANY"} /\ t \notin fIn.types
            IN  /\ none_only => TemplateTaken(i)
                /\ (~none_only /\ any_unmet) => ~TemplateTaken(i)
                /\ (~none_only /\ ~any_unmet /\ type_missing) => ~TemplateTaken(i)
                /\ (~none_only /\ ~any_unmet /\ ~type_missing) => TemplateTaken(i)

\* A host without interfaces: the template that requires nothing is taken,
\* the one that lists NONE next to ANY is left out.
C24_Witness ==
    /\ TemplatesApplied /\ Len(fIn.reqs) = MaxTplList /\ fIn.types = {}
    /\ fIn.reqs[1] = {} /\ TemplateTaken(1)
    /\ fIn.reqs[MaxTplList] = {"NONE", "ANY"} /\ ~TemplateTaken(MaxTplList)


\* ------------------------------------------------------------------- C25
\* The groups assigned to the object that the host's Target owns.
OwnGroups == {g \in hCfg.bundle.groups : hCfg.bundle.own[g]}
HGroupFailed == \E j \in HCalls("hostgroup.create") : hLog[j].err # NoExc

\* C25: when a sync issues the host create, every group assigned to the
\* object on the host's Target has an id by then: a group that lacked one was
\* created on the platform before the host create and the id the platform
\* gave it is stored, a group that had one was left alone; when a group
\* creation fails, no host create is issued and the record's host id stays
\* unset.
C25_GroupsBeforeHost ==
    HSynced =>
        /\ \A k \in HCalls("host.create") : \A g \in OwnGroups :
              /\ hGids[g] # NoId
              /\ hLast.gids[g] = NoId =>
                    \E j \in HDone("hostgroup.create") :
                        j < k /\ hLog[j].params.group = g /\ hLog[j].hostid = hGids[g]
              /\ hLast.gids[g] # NoId =>
                    /\ hGids[g] = hLast.gids[g]
                    /\ \A j \in HCalls("hostgroup.create") : hLog[j].params.group # g
        /\ \A j \in HCalls("hostgroup.create") :
              hLog[j].params.group \in OwnGroups /\ hLast.gids[hLog[j].params.group] = NoId
        /\ HGroupFailed => HCalls("host.create") = {} /\ hObj[hLast.rec].id = NoId

\* The first sync of the assignment created its group and then the host.
C25_Witness ==
    /\ HSynced /\ hLast.pre.id = NoId
    /\ HDone("hostgroup.create") # {} /\ HDone("host.create") # {}
    /\ \A g \in OwnGroups : hLast.gids[g] = NoId /\ hGids[g] # NoId

\* A sync whose group creation failed.
C25_WitnessFailed == HSynced /\ HGroupFailed /\ hLast.exc.kind = "RuntimeError"


\* ------------------------------------------------------------------- C26
\* C26: every entry of the groups of a host payload the last sync sent
\* (create or update, with or without templates) carries an id, and the id
\* is that of a group assigned to the object which the host's Target owns.
C26_GroupsResolved ==
    HSynced =>
        \A k \in HPayloads : \A e \in hLog[k].params.groups :
            /\ e.groupid # NoId
            /\ \E g \in OwnGroups : hGids[g] = e.groupid


\* ------------------------------------------------------------------- C27
MacrosBuilt == fOp = "get_macros" /\ fOut.exc = NoExc
\* The macros of the local store: the bundle's, and those generated from its
\* interfaces.
DefinedMacros == Range(fIn.macros)
GeneratedMacros == Range(get_snmp_macros(fIn.hostinterfaces))
NamesOf(macros) == {m.macro : m \in macros}
\* The macros the record's host has on the platform.
HostMacros == IF fIn.hostid = NoId THEN {} ELSE fIn.remote

\* C27: under macro source of truth ZABBIX (the platform) every macro of the
\* remote host whose name no macro of the bundle has is in the payload with
\* its remote value, and every payload entry under the name of a macro of
\* the bundle carries the bundle's value, once; under NETBOX every payload
\* entry is a macro of the bundle or one generated from its interfaces.
C27_RemoteMacrosAdditive ==
    MacrosBuilt =>
        LET payload == Range(fOut.macros)
        IN  /\ fIn.hostmacro = "ZABBIX" =>
                /\ \A m \in HostMacros :
                      m.macro \notin NamesOf(DefinedMacros) => m \in payload
                /\ \A k \in DOMAIN fOut.macros :
                      fOut.macros[k].macro \in NamesOf(DefinedMacros) =>
                          /\ fOut.macros[k] \in DefinedMacros
                          /\ \A l \in DOMAIN fOut.macros :
                                fOut.macros[l].macro = fOut.macros[k].macro => l = k
            /\ fIn.hostmacro = "NETBOX" => payload \subseteq DefinedMacros \cup GeneratedMacros

\* Under ZABBIX the host has one macro the bundle does not have and one it
\* has with another value: the first is in the payload, the second is not.
C27_Witness ==
    /\ MacrosBuilt /\ fIn.hostmacro = "ZABBIX" /\ fIn.hostid # NoId
    /\ fIn.macros = <<[macro |-> "{$LOCAL}", value |-> "nb"]>>
    /\ {[macro |-> "{$LOCAL}", value |-> "zb"], [macro |-> "{$REMOTE}", value |-> "zb"]}
          \subseteq fIn.remote
    /\ [macro |-> "{$REMOTE}", value |-> "zb"] \in Range(fOut.macros)
    /\ [macro |-> "{$LOCAL}", value |-> "zb"] \notin Range(fOut.macros)


\* ------------------------------------------------------------------- C28
CommunityEntries == {k \in DOMAIN fOut.macros : fOut.macros[k].macro = SnmpCommunity}

\* C28: the macros of a payload hold at most one entry for the community
\* placeholder, however many SNMP v1/v2 interfaces the host has; when a macro
\* of the bundle defines the placeholder, that entry is the bundle's.
C28_SingleCommunity ==
    MacrosBuilt =>
        /\ Cardinality(CommunityEntries) <= 1
        /\ SnmpCommunity \in NamesOf(DefinedMacros) =>
              \A k \in CommunityEntries : fOut.macros[k] \in DefinedMacros


\* ------------------------------------------------------------------- C29
\* The fetches of the host's tags that failed in the last sync.
HTagFetchFailed ==
    {k \in HCalls("host.get") : hLog[k].params = [select |-> "tags"] /\ hLog[k].err # NoExc}

\* C29: when the fetch of the host's tags fails while the update payload is
\* built, the update is issued all the same, as the next call, with the local
\* tags merged over no remote tag, and the sync raises no error unless the
\* update itself fails.
C29_TagFetchFailureAbsorbed ==
    HSynced =>
        \A k \in HTagFetchFailed :
            /\ Len(hLog) > k
            /\ hLog[k + 1].op = "host.update"
            /\ hLog[k + 1].params.tags
                  = Range(merge_zabbix_and_netbox_tags(
                              <<>>, ListOf(get_tag_attributes(hCfg.bundle).tags)))
            /\ hLog[k + 1].err = NoExc => hLast.exc = NoExc

\* The fetch failed for a host that has tags on the platform and local tags,
\* and the update went through.
C29_Witness ==
    /\ HSynced /\ hLast.exc = NoExc
    /\ \E k \in HTagFetchFailed :
          /\ Len(hLog) > k /\ hLog[k + 1].op = "host.update" /\ hLog[k + 1].err = NoExc
          /\ hRemPre[hLog[k + 1].params.hostid].tags # {}
          /\ hLog[k + 1].params.tags # {}


\* ------------------------------------------------------------------- C30
\* The host-group attempts of the pass, in the order they were made.
HostGroupAttempts ==
    LET IsGroup(a) == a.cls = "HostGroupSync"
    IN  SelectSeq(pAttempts, IsGroup)
\* The keys found in the bundles, and where a key is first seen when the
\* bundles are read one after the other.
BundleKeys == {x[1] : x \in ItemsOfRank(4)}
FirstSeen(g) ==
    LET width == Cardinality(HostGroupPks) + 1
        at == {a * width + k : a \in 1..Len(pCfg.assignments),
                               k \in 1..Cardinality(HostGroupPks)}
        hit == {r \in at : LET a == r \div width
                               k == r % width
                           IN  /\ k <= Len(pCfg.assignments[a].hostgroups)
                               /\ pCfg.assignments[a].hostgroups[k] = g}
    IN  CHOOSE r \in hit : \A o \in hit : r <= o

\* C30: the host-groups stage syncs each key found in the bundles once, however
\* many bundles hold it, and in the order in which the keys are first seen:
\* no key is attempted twice, every attempt is for a key of a bundle, a key
\* seen earlier is attempted earlier, and when the stage is over every key
\* has been attempted.
C30_GroupsOncePerPass ==
    LET G == HostGroupAttempts
    IN  /\ \A i, j \in DOMAIN G : G[i].item = G[j].item => i = j
        /\ \A i \in DOMAIN G : G[i].item[1] \in BundleKeys
        /\ \A j \in DOMAIN G : \A g \in BundleKeys :
              FirstSeen(g) < FirstSeen(G[j].item[1]) =>
                  \E i \in 1..(j - 1) : G[i].item = <<g>>
        /\ pStage \in {"hostinterfaces", "hosts2", "refresh", "done"} =>
              \A g \in BundleKeys : \E i \in DOMAIN G : G[i].item = <<g>>

\* Two bundles hold the same two keys in opposite orders; the pass is over and
\* has synced them in the order of the first bundle.
C30_Witness ==
    /\ pStage = "done"
    /\ Len(pCfg.assignments) = MaxAssignments
    /\ pCfg.assignments[1].hostgroups = <<2, 1>>
    /\ pCfg.assignments[MaxAssignments].hostgroups = <<1, 2>>
    /\ Len(HostGroupAttempts) = 2
    /\ HostGroupAttempts[1].item = <<2>> /\ HostGroupAttempts[2].item = <<1>>


\* ------------------------------------------------------------------- C31
\* The host syncs with templates made so far.
Phase2Attempts == {i \in 1..Len(pAttempts) : AttemptRank(pAttempts[i]) = 6}

\* C31: the template catalog refresh runs once per pass, when every
\* assignment has had its host sync with templates, and whether it fails or
\* not syncall returns: no exception leaves the pass, the refresh has run
\* exactly when the pass is over, and a pass that runs in a job then reports
\* progress 100.
C31_RefreshBestEffort ==
    /\ pStage # "raised"
    /\ Len(pRefresh) <= 1
    /\ Len(pRefresh) = 1 <=> pStage = "done"
    /\ Len(pRefresh) = 1 =>
          /\ \A a \in 1..Len(pCfg.assignments) : \E i \in Phase2Attempts : pAttempts[i].item = <<a>>
          /\ pCfg.job => pTracker.progress = 100

\* A pass over MaxAssignments assignments, run in a job, whose template
\* catalog refresh failed after an item had failed too.
C31_Witness ==
    /\ pStage = "done"
    /\ pRefresh = <<"failed">>
    /\ pCfg.job
    /\ Len(pCfg.assignments) = MaxAssignments
    /\ pTracker.completed < pTracker.total
    /\ pTracker.progress = 100


\* ------------------------------------------------------------------- C32
ProxyPayloadBuilt == fOp = "get_proxy_or_proxygroup"
HasField(r, k) == k \in DOMAIN r

RaceOver == \A r \in Runs : rRuns[r].pc = "done"
RaceUndisturbed == \A r \in Runs : ~rRuns[r].faulted
RemoteHostsNow == {h \in HostIds : hRemote[h].exists}

\* C33: two passes for one Target interleave on an assignment whose stored
\* host id is unset or names a host the platform no longer has; when both are
\* over and the platform refused nothing but duplicates, the platform has
\* exactly one host for the assignment and the stored id is that host's.
C33_RaceConverges ==
    (RaceOver /\ RaceUndisturbed) =>
        /\ Cardinality(RemoteHostsNow) = 1
        /\ hObj[1].id \in RemoteHostsNow


\* ------------------------------------------------------------------- C34
\* The last sync returned, and what its create, if it made one, ended with.
IReturned == iLog # <<>> /\ iExc = NoExc
ICreateFailed ==
    \E k \in DOMAIN iLog : iLog[k].op = "hostinterface.create" /\ iLog[k].err # NoExc

\* C34: when HostInterfaceSync.sync has returned without raising, the record
\* has a stored interface id exactly when its sync status is success: a failed
\* create or recreate leaves no id and status failed, a path that succeeded
\* an id and status success; and one call issues at most one create and at
\* most one update.
C34_IdIffSuccess ==
    /\ ICount("hostinterface.create") <= 1
    /\ ICount("hostinterface.update") <= 1
    /\ IReturned =>
          /\ iObj.id # NoId <=> iObj.ok = "success"
          /\ iObj.ok \in {"success", "failed"}
          /\ ICreateFailed => iObj.id = NoId /\ iObj.ok = "failed"
          /\ ~ICreateFailed => iObj.id # NoId /\ iObj.ok = "success"

\* A record that was synced before, whose update the platform refused as a
\* host switch and whose recreation failed.
C34_Witness ==
    /\ IReturned
    /\ ISwitchRejected
    /\ ICreateFailed
    /\ iPre.ok = "success" /\ iPre.id # NoId
    /\ iObj.id = NoId /\ iObj.ok = "failed"


\* ------------------------------------------------------------------- C35
\* The names of a set of tags.
NamesOfTags(tags) == {TagKey(t) : t \in tags} \ {""}
\* The host updates of the last sync that were built on a successful fetch of
\* the host's tags.
HUpdatesOnFetchedTags ==
    {k \in HCalls("host.update") :
        /\ k > 1
        /\ hLog[k - 1].op = "host.get"
        /\ hLog[k - 1].params = [select |-> "tags"]
        /\ hLog[k - 1].err = NoExc}

\* C35: a host update built on a successful fetch of the host's tags names
\* every tag the host had on the platform before the sync, and when the
\* platform takes the update the host still has every one of them: a tag the
\* local store no longer produces, the no-alerting tag of a device that left
\* that status included, is not removed.
C35_RemoteTagsKept ==
    HSynced =>
        \A k \in HUpdatesOnFetchedTags :
            LET h == hLog[k].params.hostid
                before == NamesOfTags(hRemPre[h].tags)
            IN  /\ before \subseteq NamesOfTags(hLog[k].params.tags)
                /\ hLog[k].err = NoExc => before \subseteq NamesOfTags(hRemote[h].tags)

\* The host carries the no-alerting tag and an operator's tag on the platform,
\* the device has left the no-alerting status, and the update that went
\* through still names both.
C35_Witness ==
    /\ HSynced /\ hLast.exc = NoExc
    /\ hCfg.bundle.zstatus = "ENABLED"
    /\ \E k \in HUpdatesOnFetchedTags :
          /\ hLog[k].err = NoExc
          /\ NoAlertingTag \in hRemPre[hLog[k].params.hostid].tags
          /\ {NoAlertingTag.tag, "zbx"} \subseteq NamesOfTags(hRemote[hLog[k].params.hostid].tags)


\* ------------------------------------------------------------------- C36
\* The update payloads of the last sync when it was a sync with templates
\* under template source of truth NETBOX.
HLocalTemplateUpdates ==
    IF HSynced /\ ~hLast.skip_templates /\ hCfg.sot.hosttemplate = "NETBOX"
    THEN HCalls("host.update") ELSE {}

\* C36: in such a payload no template id is in both `templates` and
\* `templates_clear`, every id of `templates_clear` is linked to the host on
\* the platform, and every template linked there is in one of the two lists.
C36_TemplateListsPartition ==
    \A k \in HLocalTemplateUpdates :
        LET p == hLog[k].params
            linked == hRemPre[p.hostid].templates
        IN  /\ {"templates", "templates_clear"} \subseteq DOMAIN p
            /\ Range(p.templates) \cap p.templates_clear = {}
            /\ p.templates_clear \subseteq linked
            /\ linked \subseteq Range(p.templates) \cup p.templates_clear

\* An update for a host that has an intended template and another one linked
\* on the platform: one is kept, the other cleared.
C36_Witness ==
    \E k \in HLocalTemplateUpdates :
        LET p == hLog[k].params
            linked == hRemPre[p.hostid].templates
        IN  /\ hLog[k].err = NoExc
            /\ linked \cap Range(p.templates) # {}
            /\ p.templates_clear # {}


\* ------------------------------------------------------------------- C37
\* The text holds "already exists", in any case of letters.
HasPhrase(text) == Contains(Lower(text), <<"already", "exists">>)
\* The error is a remote API request error that says so in its string form,
\* its data or its message.
IsApiDuplicate(err) ==
    /\ err.kind = "APIRequestError"
    /\ \/ HasPhrase(err.str)
       \/ "data" \in err.strAttrs /\ HasPhrase(err.data)
       \/ "message" \in err.strAttrs /\ HasPhrase(err.message)
\* The last safe_sync call went into _sync_existing: it opened the recovery
\* connection, or failed to resolve the Target there, the one place that lets
\* a DoesNotExist reach the caller.
RecoveryEntered == RecoveryConnections # {} \/ sExc.kind = "DoesNotExist"

\* C37: safe_sync goes into recovery exactly when the wrapped sync raised a
\* remote API request error that says "already exists"; an error of another
\* class is not recovered although its text holds the phrase, and reaches the
\* caller as RuntimeError.
C37_RecoveryOnlyOnApiDuplicate ==
    sLog # <<>> =>
        /\ RecoveryEntered <=> IsApiDuplicate(sRun)
        /\ (sRun # NoExc /\ sRun.kind # "APIRequestError") =>
              /\ sExc.kind = "RuntimeError"
              /\ Lookups = {} /\ RecoveryUpdates = {}

\* The wrapped sync raised a RuntimeError that holds the phrase (the create
\* was refused as a duplicate and the lookup by natural key was not unique);
\* safe_sync did not recover.
C37_Witness ==
    /\ sLog # <<>>
    /\ sRun.kind = "RuntimeError" /\ HasPhrase(sRun.str)
    /\ ~RecoveryEntered
    /\ sExc.kind = "RuntimeError"


\* ------------------------------------------------------------------- C38
\* The unit's calls by kind.
UnitIsPhase1(a) == a.cls = "HostSync" /\ a.skip_templates
UnitIsPhase2(a) == a.cls = "HostSync" /\ ~a.skip_templates
UnitIsInterface(a) == a.cls = "HostInterfaceSync"
UnitOver == dStage \in {"done", "raised"}

\* C38: the unit of an assignment calls the host sync without templates
\* first, then each interface of the bundle once, in order, with the hostid
\* the assignment has after phase 1, then the host sync with templates.  An
\* interface that fails is passed over and the unit goes on; a failure of
\* phase 1 ends the unit with no further call; no interface is synced without
\* a hostid after phase 1.
C38_UnitOrder ==
    LET A == dAttempts
        ifaces == dCfg.assignments[dIdx].hostinterfaces
    IN  /\ dStage # "phase1" => Len(A) >= 1
        /\ \A i \in DOMAIN A :
              /\ A[i].item = IF UnitIsInterface(A[i]) THEN ifaces[i - 1] ELSE <<dIdx>>
              /\ UnitIsPhase1(A[i]) <=> i = 1
              /\ UnitIsPhase2(A[i]) => i = Len(A) /\ UnitOver
              /\ UnitIsInterface(A[i]) =>
                    /\ A[1].exc = "none"
                    /\ A[1].after # NoId
                    /\ A[i].hostid = A[1].after
        /\ (Len(A) >= 1 /\ A[1].exc # "none") => Len(A) = 1 /\ dStage = "raised"
        /\ (\E i \in DOMAIN A : UnitIsPhase2(A[i])) => Len(A) = Len(ifaces) + 2
        /\ dStage = "done" => Len(A) = Len(ifaces) + 2
        /\ UnitOver => Len(A) = 1 \/ UnitIsPhase2(A[Len(A)])

\* A unit that ran to its end although an interface failed.
C38_Witness ==
    /\ dStage = "done"
    /\ Len(dCfg.assignments[dIdx].hostinterfaces) = MaxIfaces
    /\ \E i \in DOMAIN dAttempts : UnitIsInterface(dAttempts[i]) /\ dAttempts[i].exc # "none"
    /\ UnitIsPhase2(dAttempts[Len(dAttempts)])

\* A unit whose phase 1 failed.
C38_WitnessAborted ==
    /\ dStage = "raised"
    /\ Len(dAttempts) = 1
    /\ Len(dCfg.assignments[dIdx].hostinterfaces) = MaxIfaces


\* ------------------------------------------------------------------- C39
\* C39: every interface the progress tracker counted as completed had sync
\* status success when it was counted.
C39_CountedIsSuccess ==
    \A i \in DOMAIN pAttempts : pAttempts[i].counted => pAttempts[i].ok = "success"

\* The interfaces whose safe_sync call raised are not counted.
C39_RaisedNotCounted ==
    \A i \in DOMAIN pAttempts : pAttempts[i].exc # "none" => ~pAttempts[i].counted


\* ------------------------------------------------------------------- C40
\* The safe_sync calls of a whole pass, as the collected data fix them.
PassPlan ==
    StageItems(pCfg, pCollected, "hosts1") \o StageItems(pCfg, pCollected, "proxy_groups")
    \o StageItems(pCfg, pCollected, "proxies") \o StageItems(pCfg, pCollected, "hostgroups")
    \o StageItems(pCfg, pCollected, "hostinterfaces") \o StageItems(pCfg, pCollected, "hosts2")

ProgressBounds ==
    /\ pStage # "idle" =>
          pTracker.total = 2 * Len(pCfg.assignments) + pCfg.proxy_groups + pCfg.proxies
                           + Len(pCollected.hostgroups) + Len(pCollected.hostinterfaces)
    /\ pTracker.completed >= 0
    /\ pTracker.completed <= pTracker.total
    /\ pTracker.completed <= Len(pAttempts)
    /\ pTracker.progress \in {-1} \cup 0..100
    /\ ~pCfg.job => pTracker.progress = -1
    /\ Len(pAttempts) <= Len(PassPlan)
    /\ pAttempts = SubSeq(PassPlan, 1, Len(pAttempts))
    /\ pStage = "done" =>
          /\ Len(pAttempts) = Len(PassPlan)
          /\ pCfg.job => pTracker.progress = 100

ProgressGrows ==
    /\ pTracker'.completed >= pTracker.completed
    /\ pTracker'.progress >= pTracker.progress

\* C40: in a pass the completed counter stays within 0..total, total being
\* 2 x assignments + proxy groups + proxies + host groups + host interfaces;
\* the progress reported to the job stays within 0..100 (nothing is reported
\* outside a job) and neither it nor the counter ever decreases; the calls
\* made are the pass's plan in order, whatever the counter holds, and all of
\* them have been made when the pass ends; a pass in a job ends with
\* progress 100 however many items failed.
C40_ProgressAdvisory == []ProgressBounds /\ [][ProgressGrows]_vars

\* A pass in a job that ended with some items counted and others failed.
C40_Witness ==
    /\ pStage = "done"
    /\ pCfg.job
    /\ pRefresh = <<"ok">>
    /\ Len(pCfg.assignments) = MaxAssignments
    /\ pTracker.completed >= 1
    /\ pTracker.completed + 1 < pTracker.total
    /\ pTracker.progress = 100

=============================================================================
